---- MODULE Spec2Model ----
(***************************************************************************)
(* State-machine model of the gorb-swap-native AMM program (src/src/lib.rs).*)
(*                                                                         *)
(* One action per instruction handler.  A handler is atomic: the host      *)
(* discards every effect of an instruction that returns an error or        *)
(* panics, so a failed handler leaves pools, vaults and the share mint     *)
(* untouched and only the record of the last call (`last`) changes.        *)
(*                                                                         *)
(* Integer widths are scaled: a u64 is a number in 0..U64Max and a u128 a  *)
(* number in 0..U128Max with U128Max + 1 = (U64Max + 1)^2, so that, as in  *)
(* the program, the product of two u64 always fits a u128, 1000 * u64 +    *)
(* 997 * u64 fits a u128, and 997 * u64 * u64 may not.                     *)
(***************************************************************************)
EXTENDS Integers, Sequences, FiniteSets, TLC

VARIABLES
    pools,      \* pool account -> the pool record it stores
    vaults,     \* pool account -> what its two custody accounts hold
    lp_mint,    \* pool account -> supply of its share mint in circulation
    last,       \* the last instruction: arguments, result, amounts moved
    steps,      \* instructions that took effect so far; Stopped once one failed
    calc,       \* the last application of a function to chosen arguments
    retained    \* pool account -> per side, the fee shares of all swaps so
                \* far less what WithdrawFees paid out (history variable)

vars == <<pools, vaults, lp_mint, last, steps, calc, retained>>

-----------------------------------------------------------------------------
(* Bounds *)

\* largest value of the (scaled) u64 type
U64Max == 32767

\* a behaviour is a run of at most MaxSteps instructions that take effect,
\* ended by at most one that fails: a failed instruction changes nothing but
\* the record of the last call, so no pool state is lost by stopping there
MaxSteps == 3

\* the same for the longer behaviours of one token pool and one native pool
MaxFeeSteps == 5

\* lamports the rent sysvar asks for the pool account (scaled)
PoolRent == 2

\* the arguments of a function applied on its own run over 0..MaxSmall and
\* a few large values
MaxSmall == 12

-----------------------------------------------------------------------------
(* Fixed-width arithmetic *)

U128Max == (U64Max + 1) * (U64Max + 1) - 1

\* Option::None of the checked operations
None == -1

\* `x as u64` on a u128: keeps the low bits
AsU64(x) == x % (U64Max + 1)

\* u128::checked_mul
CheckedMul128(a, b) ==
    IF a = 0 \/ b = 0 THEN 0
    ELSE IF a > U128Max \div b THEN None
    ELSE a * b

\* u128::checked_add
CheckedAdd128(a, b) == IF a > U128Max - b THEN None ELSE a + b

\* u128::checked_div
CheckedDiv128(a, b) == IF b = 0 THEN None ELSE a \div b

\* u64::checked_add
CheckedAdd64(a, b) == IF a > U64Max - b THEN None ELSE a + b

\* u64::checked_sub
CheckedSub64(a, b) == IF b > a THEN None ELSE a - b

\* swap fee: 997/1000 of the input is priced, 3/1000 is booked as fee
FeeNumerator == 997
FeeDenominator == 1000
FeeBooked == 3

\* Result<u64, ProgramError> of calculate_swap_output
QuoteOk(v) == [err |-> "Ok", val |-> v]
QuoteErr(e) == [err |-> e, val |-> 0]

\* a quote narrowed to eight bits
QuoteNarrowed(numerator, denominator) == (numerator \div denominator) % 256

\* Ok((numerator / denominator) as u64)
QuoteRoundedUp(numerator, denominator) ==
    AsU64((numerator + denominator - 1) \div denominator)

QuoteResult(numerator, denominator) == AsU64(numerator \div denominator)

\* a quote that keeps no fee: the input enters the formula in full
calculate_swap_output_no_fee(amount_in, reserve_in, reserve_out) ==
    IF amount_in = 0 \/ reserve_in = 0 \/ reserve_out = 0
    THEN QuoteErr("InvalidArgument")
    ELSE LET amount_in_scaled == CheckedMul128(amount_in, FeeDenominator)
         IN  IF amount_in_scaled = None THEN QuoteErr("InvalidArgument")
             ELSE LET numerator == CheckedMul128(amount_in_scaled, reserve_out)
                      scaled_in == CheckedMul128(reserve_in, FeeDenominator)
                      denominator == IF scaled_in = None THEN None
                                     ELSE CheckedAdd128(scaled_in, amount_in_scaled)
                  IN  IF numerator = None \/ denominator = None
                      THEN QuoteErr("InvalidArgument")
                      ELSE QuoteOk(QuoteResult(numerator, denominator))

calculate_swap_output(amount_in, reserve_in, reserve_out) ==
    IF amount_in = 0 \/ reserve_in = 0 \/ reserve_out = 0
    THEN QuoteErr("InvalidArgument")
    ELSE LET amount_in_with_fee == CheckedMul128(amount_in, FeeNumerator)
         IN  IF amount_in_with_fee = None THEN QuoteErr("InvalidArgument")
             ELSE LET numerator == CheckedMul128(amount_in_with_fee, reserve_out)
                      scaled_in == CheckedMul128(reserve_in, FeeDenominator)
                      denominator == IF scaled_in = None THEN None
                                     ELSE CheckedAdd128(scaled_in, amount_in_with_fee)
                  IN  IF numerator = None \/ denominator = None
                      THEN QuoteErr("InvalidArgument")
                      ELSE IF denominator = 0 THEN QuoteErr("InvalidArgument")
                      ELSE QuoteOk(QuoteResult(numerator, denominator))

\* the Newton loop of integer_sqrt: while y < x { x = y; y = (x + n / x) / 2 }
\* an iteration that steps down by one
SqrtStepByOne(n, x) == x - 1

\* y = (x + self / x) / 2
SqrtStep(n, x) == (x + n \div x) \div 2

RECURSIVE SqrtLoop(_, _, _)
SqrtLoop(n, x, y) ==
    IF y < x THEN SqrtLoop(n, y, SqrtStep(n, y)) ELSE x

integer_sqrt_first_step(n) ==
    IF n < 2 THEN n
    ELSE LET y == (n + 1) \div 2 IN (y + n \div y) \div 2

integer_sqrt(n) ==
    IF n < 2 THEN n ELSE SqrtLoop(n, n, (n + 1) \div 2)

\* fee_amount = (amount_in as u128 * 3 / 1000) as u64
FeeAmountRoundedUp(amount_in) ==
    AsU64((amount_in * FeeBooked + FeeDenominator - 1) \div FeeDenominator)

FeeAmount(amount_in) == AsU64((amount_in * FeeBooked) \div FeeDenominator)

-----------------------------------------------------------------------------
(* Accounts *)

NATIVE_SOL_MINT == "SOL"

\* the pool accounts of the model: two token/token pools that share the
\* asset Y, and one native-asset/token pool
PoolIds == {"pXY", "pYZ", "pSOL"}

PoolTokenA(p) == CASE p = "pXY" -> "X" [] p = "pYZ" -> "Y" [] OTHER -> NATIVE_SOL_MINT
PoolTokenB(p) == CASE p = "pXY" -> "Y" [] p = "pYZ" -> "Z" [] OTHER -> "T"

\* is_native_sol_pool: one of the two mints passed is the native mint
IsNativePool(p) == PoolTokenA(p) = NATIVE_SOL_MINT \/ PoolTokenB(p) = NATIVE_SOL_MINT

\* Pubkey::default()
NoKey == "default"

\* the data of a pool account that was never created
EmptyPool ==
    [exists |-> FALSE, token_a |-> NoKey, token_b |-> NoKey,
     reserve_a |-> 0, reserve_b |-> 0, total_lp_supply |-> 0,
     fee_collected_a |-> 0, fee_collected_b |-> 0, fee_treasury |-> NoKey]

\* Pool::unpack / NativeSOLPool::unpack succeeds: the account holds a record
\* of the right length whose token_a is set
Unpacks(pool) == pool.exists /\ pool.token_a # NoKey

EmptyVault == [a |-> 0, b |-> 0]

\* what a handler hands back: the result code, the three pieces of state
\* it leaves behind, and the amounts it moved.  InitPool, Swap and the
\* multi-hop handlers also hand back `effects`, the number of account
\* creations and transfers that had been carried out when the result was
\* decided (the runtime undoes them when the result is an error).
Outcome(result, pool, vault, lp) ==
    [result |-> result, pool |-> pool, vault |-> vault, lp |-> lp,
     final_a |-> 0, final_b |-> 0, liquidity |-> 0,
     debit_a |-> 0, debit_b |-> 0, credit_a |-> 0, credit_b |-> 0, burned |-> 0,
     amount_out |-> 0, fee |-> 0, effects |-> 0]

\* the outcome o, decided after n account creations and transfers
After(n, o) == [o EXCEPT !.effects = n]

\* the accounts of a call that a handler compares with a derived address;
\* a caller may supply any one of them at another address
WrongAccounts == {"none", "pool", "vault", "lp_mint"}

-----------------------------------------------------------------------------
(* The token program and the system program, as the handlers use them.     *)
(* The caller is taken to hold enough of every asset: a transfer out of    *)
(* the caller fails only when the receiving balance would overflow.        *)

\* Transfer / MintTo: the receiving balance (or the mint supply) grows
TokenCredit(balance, amount) == CheckedAdd64(balance, amount)

\* Transfer / Burn: the paying balance shrinks, and must cover the amount
TokenDebit(balance, amount) == CheckedSub64(balance, amount)

\* lamports moved into the pool account, which also holds its rent
LamportsCredit(balance, amount) ==
    IF CheckedAdd64(PoolRent + balance, amount) = None THEN None
    ELSE balance + amount

\* lamports taken out of the pool account (**lamports -= amount): the
\* account cannot go below its rent
LamportsDebit(balance, amount) == CheckedSub64(balance, amount)

-----------------------------------------------------------------------------
(* InitPool *)

\* liquidity = (amount_a as u128).checked_mul(amount_b as u128).unwrap()
\*                 .integer_sqrt() as u64
InitialLiquidity(amount_a, amount_b) == AsU64(integer_sqrt(amount_a * amount_b))

\* the token/token branch: the pool and vault addresses are compared first;
\* the system program refuses to create the pool account a second time; the
\* address of the share mint is compared after the pool account and the
\* two vaults were created; then come the mint, the two deposits, the
\* caller's share holding and the shares (eight effects in all)
process_init_pool(p, pool, vault, lp, amount_a, amount_b, wrong) ==
    IF wrong \in {"pool", "vault"}
    THEN Outcome("InvalidSeeds", pool, vault, lp)
    ELSE IF pool.exists THEN Outcome("AccountAlreadyInUse", pool, vault, lp)
    ELSE IF wrong = "lp_mint"
    THEN After(3, Outcome("InvalidSeeds", pool, vault, lp))
    ELSE LET liquidity == InitialLiquidity(amount_a, amount_b)
         IN  [Outcome("Ok",
                      [exists |-> TRUE,
                       token_a |-> PoolTokenA(p), token_b |-> PoolTokenB(p),
                       reserve_a |-> amount_a, reserve_b |-> amount_b,
                       total_lp_supply |-> liquidity,
                       fee_collected_a |-> 0, fee_collected_b |-> 0,
                       fee_treasury |-> NoKey],
                      [a |-> amount_a, b |-> amount_b],
                      liquidity)
              EXCEPT !.final_a = amount_a, !.final_b = amount_b,
                     !.liquidity = liquidity, !.effects = 8,
                     !.debit_a = amount_a, !.debit_b = amount_b]

\* the native branch: the pool, share mint and vault addresses are compared
\* first, then the pool account must be empty; it is created holding its
\* rent plus the native reserve (pool_lamports + sol_amount, a u64 sum);
\* then come the vault, the mint, the token deposit, the caller's share
\* holding and the shares (six effects in all)
process_init_pool_native(p, pool, vault, lp, sol_amount, token_amount, wrong) ==
    IF wrong \in {"pool", "lp_mint", "vault"}
    THEN Outcome("InvalidSeeds", pool, vault, lp)
    ELSE IF pool.exists
    THEN Outcome("AccountAlreadyInitialized", pool, vault, lp)
    ELSE IF LamportsCredit(0, sol_amount) = None
    THEN Outcome("Abort", pool, vault, lp)
    ELSE LET liquidity == InitialLiquidity(sol_amount, token_amount)
         IN  [Outcome("Ok",
                      [exists |-> TRUE,
                       token_a |-> NATIVE_SOL_MINT,
                       token_b |-> IF PoolTokenA(p) = NATIVE_SOL_MINT
                                   THEN PoolTokenB(p) ELSE PoolTokenA(p),
                       reserve_a |-> sol_amount, reserve_b |-> token_amount,
                       total_lp_supply |-> liquidity,
                       fee_collected_a |-> 0, fee_collected_b |-> 0,
                       fee_treasury |-> NoKey],
                      [a |-> sol_amount, b |-> token_amount],
                      liquidity)
              EXCEPT !.final_a = sol_amount, !.final_b = token_amount,
                     !.liquidity = liquidity, !.effects = 6,
                     !.debit_a = sol_amount, !.debit_b = token_amount]

-----------------------------------------------------------------------------
(* AddLiquidity *)

\* required_b = amount_a * reserve_b / reserve_a  (as u64)
RequiredOther(amount, reserve_other, reserve_this) ==
    AsU64((amount * reserve_other) \div reserve_this)

\* "Calculate final amounts maintaining ratio"
FinalAmounts(amount_a, amount_b, reserve_a, reserve_b) ==
    IF reserve_a > 0 /\ reserve_b > 0
    THEN LET required_b == RequiredOther(amount_a, reserve_b, reserve_a)
         IN  IF required_b <= amount_b
             THEN <<amount_a, required_b>>
             ELSE <<RequiredOther(amount_b, reserve_a, reserve_b), amount_b>>
    ELSE <<amount_a, amount_b>>

\* a share amount without the first-deposit branch
LiquidityToMintByRatio(final_a, final_b, supply, reserve_a) ==
    IF reserve_a = 0 THEN None ELSE AsU64((final_a * supply) \div reserve_a)

\* "Calculate liquidity to mint"; None when checked_div divides by zero
LiquidityToMint(final_a, final_b, supply, reserve_a) ==
    IF supply = 0 THEN AsU64(integer_sqrt(final_a * final_b))
    ELSE IF reserve_a = 0 THEN None
    ELSE AsU64((final_a * supply) \div reserve_a)

\* pool.total_lp_supply = pool.total_lp_supply.checked_add(liquidity)
SupplyAfterMintForgotten(supply, liquidity) == supply

SupplyAfterMint(supply, liquidity) == CheckedAdd64(supply, liquidity)

\* "Refund unused tokens back to user": what is sent back out of the vault
Excess(amount, final) == IF amount > final THEN amount - final ELSE 0

\* the token/token branch: the deposits, the mint, the record update, then
\* the refunds
process_add_liquidity(pool, vault, lp, amount_a, amount_b) ==
    IF ~Unpacks(pool) THEN Outcome("InvalidAccountData", pool, vault, lp)
    ELSE
    LET final     == FinalAmounts(amount_a, amount_b, pool.reserve_a, pool.reserve_b)
        final_a   == final[1]
        final_b   == final[2]
        vault_a1  == TokenCredit(vault.a, final_a)
        vault_b1  == TokenCredit(vault.b, final_b)
        liquidity == LiquidityToMint(final_a, final_b, pool.total_lp_supply,
                                     pool.reserve_a)
        lp1       == TokenCredit(lp, liquidity)
        reserve_a == CheckedAdd64(pool.reserve_a, final_a)
        reserve_b == CheckedAdd64(pool.reserve_b, final_b)
        supply    == SupplyAfterMint(pool.total_lp_supply, liquidity)
        excess_a  == Excess(amount_a, final_a)
        excess_b  == Excess(amount_b, final_b)
        vault_a2  == TokenDebit(vault_a1, excess_a)
        vault_b2  == TokenDebit(vault_b1, excess_b)
    IN  IF vault_a1 = None \/ vault_b1 = None
        THEN Outcome("TokenError", pool, vault, lp)
        ELSE IF liquidity = None THEN Outcome("Abort", pool, vault, lp)
        ELSE IF lp1 = None THEN Outcome("TokenError", pool, vault, lp)
        ELSE IF reserve_a = None \/ reserve_b = None \/ supply = None
        THEN Outcome("Abort", pool, vault, lp)
        ELSE IF vault_a2 = None \/ vault_b2 = None
        THEN Outcome("TokenError", pool, vault, lp)
        ELSE [Outcome("Ok",
                      [pool EXCEPT !.reserve_a = reserve_a,
                                   !.reserve_b = reserve_b,
                                   !.total_lp_supply = supply],
                      [a |-> vault_a2, b |-> vault_b2],
                      lp1)
              EXCEPT !.final_a = final_a, !.final_b = final_b,
                     !.liquidity = liquidity,
                     !.debit_a = final_a, !.debit_b = final_b,
                     !.credit_a = excess_a, !.credit_b = excess_b]

\* the native branch: slot a is the pool account's own lamports (above its
\* rent), slot b the token vault; the refund of the native asset is a direct
\* move of lamports out of the pool account
process_add_liquidity_native(pool, vault, lp, sol_amount, token_amount) ==
    IF ~Unpacks(pool) THEN Outcome("InvalidAccountData", pool, vault, lp)
    ELSE
    LET final              == FinalAmounts(sol_amount, token_amount,
                                           pool.reserve_a, pool.reserve_b)
        final_amount_sol   == final[1]
        final_amount_token == final[2]
        lamports1  == LamportsCredit(vault.a, final_amount_sol)
        vault_b1   == TokenCredit(vault.b, final_amount_token)
        liquidity  == LiquidityToMint(final_amount_sol, final_amount_token,
                                      pool.total_lp_supply, pool.reserve_a)
        lp1        == TokenCredit(lp, liquidity)
        reserve_a  == CheckedAdd64(pool.reserve_a, final_amount_sol)
        reserve_b  == CheckedAdd64(pool.reserve_b, final_amount_token)
        supply     == SupplyAfterMint(pool.total_lp_supply, liquidity)
        excess_sol   == Excess(sol_amount, final_amount_sol)
        excess_token == Excess(token_amount, final_amount_token)
        lamports2  == LamportsDebit(lamports1, excess_sol)
        vault_b2   == TokenDebit(vault_b1, excess_token)
    IN  IF lamports1 = None \/ vault_b1 = None
        THEN Outcome("TokenError", pool, vault, lp)
        ELSE IF liquidity = None THEN Outcome("Abort", pool, vault, lp)
        ELSE IF lp1 = None THEN Outcome("TokenError", pool, vault, lp)
        ELSE IF reserve_a = None \/ reserve_b = None \/ supply = None
        THEN Outcome("Abort", pool, vault, lp)
        ELSE IF lamports2 = None THEN Outcome("Abort", pool, vault, lp)
        ELSE IF vault_b2 = None THEN Outcome("TokenError", pool, vault, lp)
        ELSE [Outcome("Ok",
                      [pool EXCEPT !.reserve_a = reserve_a,
                                   !.reserve_b = reserve_b,
                                   !.total_lp_supply = supply],
                      [a |-> lamports2, b |-> vault_b2],
                      lp1)
              EXCEPT !.final_a = final_amount_sol, !.final_b = final_amount_token,
                     !.liquidity = liquidity,
                     !.debit_a = final_amount_sol, !.debit_b = final_amount_token,
                     !.credit_a = excess_sol, !.credit_b = excess_token]

-----------------------------------------------------------------------------
(* RemoveLiquidity *)

\* amount = lp_amount * reserve / supply (as u64); None when supply is zero
WithdrawAmountRoundedUp(lp_amount, reserve, supply) ==
    IF supply = 0 THEN None
    ELSE AsU64((lp_amount * reserve + supply - 1) \div supply)

WithdrawAmount(lp_amount, reserve, supply) ==
    IF supply = 0 THEN None ELSE AsU64((lp_amount * reserve) \div supply)

\* a handler that pays out whatever is left when asked for more shares
\* than there are
process_remove_liquidity_clamped(pool, vault, lp, lp_amount) ==
    IF ~Unpacks(pool) THEN Outcome("InvalidAccountData", pool, vault, lp)
    ELSE
    LET taken == IF lp_amount > pool.total_lp_supply
                 THEN pool.total_lp_supply ELSE lp_amount
    IN  IF taken > lp \/ pool.reserve_a > vault.a \/ pool.reserve_b > vault.b
        THEN Outcome("TokenError", pool, vault, lp)
        ELSE [Outcome("Ok",
                      [pool EXCEPT !.reserve_a = 0, !.reserve_b = 0,
                                   !.total_lp_supply = @ - taken],
                      [a |-> vault.a - pool.reserve_a,
                       b |-> vault.b - pool.reserve_b],
                      lp - taken)
              EXCEPT !.final_a = pool.reserve_a, !.final_b = pool.reserve_b,
                     !.credit_a = pool.reserve_a, !.credit_b = pool.reserve_b,
                     !.burned = taken]

\* the token/token branch: the two amounts, the burn, the payouts, the
\* record update
process_remove_liquidity(pool, vault, lp, lp_amount) ==
    IF ~Unpacks(pool) THEN Outcome("InvalidAccountData", pool, vault, lp)
    ELSE
    LET amount_a  == WithdrawAmount(lp_amount, pool.reserve_a, pool.total_lp_supply)
        amount_b  == WithdrawAmount(lp_amount, pool.reserve_b, pool.total_lp_supply)
        lp1       == TokenDebit(lp, lp_amount)
        vault_a1  == TokenDebit(vault.a, amount_a)
        vault_b1  == TokenDebit(vault.b, amount_b)
        reserve_a == CheckedSub64(pool.reserve_a, amount_a)
        reserve_b == CheckedSub64(pool.reserve_b, amount_b)
        supply    == CheckedSub64(pool.total_lp_supply, lp_amount)
    IN  IF amount_a = None \/ amount_b = None
        THEN Outcome("Abort", pool, vault, lp)
        ELSE IF lp1 = None \/ vault_a1 = None \/ vault_b1 = None
        THEN Outcome("TokenError", pool, vault, lp)
        ELSE IF reserve_a = None \/ reserve_b = None \/ supply = None
        THEN Outcome("Abort", pool, vault, lp)
        ELSE [Outcome("Ok",
                      [pool EXCEPT !.reserve_a = reserve_a,
                                   !.reserve_b = reserve_b,
                                   !.total_lp_supply = supply],
                      [a |-> vault_a1, b |-> vault_b1],
                      lp1)
              EXCEPT !.final_a = amount_a, !.final_b = amount_b,
                     !.credit_a = amount_a, !.credit_b = amount_b,
                     !.burned = lp_amount]

\* the native branch: the native payout is a direct move of lamports out of
\* the pool account, which must keep its rent
process_remove_liquidity_native(pool, vault, lp, lp_amount) ==
    IF ~Unpacks(pool) THEN Outcome("InvalidAccountData", pool, vault, lp)
    ELSE
    LET amount_sol   == WithdrawAmount(lp_amount, pool.reserve_a, pool.total_lp_supply)
        amount_token == WithdrawAmount(lp_amount, pool.reserve_b, pool.total_lp_supply)
        lp1          == TokenDebit(lp, lp_amount)
        lamports1    == LamportsDebit(vault.a, amount_sol)
        vault_b1     == TokenDebit(vault.b, amount_token)
        reserve_a    == CheckedSub64(pool.reserve_a, amount_sol)
        reserve_b    == CheckedSub64(pool.reserve_b, amount_token)
        supply       == CheckedSub64(pool.total_lp_supply, lp_amount)
    IN  IF amount_sol = None \/ amount_token = None
        THEN Outcome("Abort", pool, vault, lp)
        ELSE IF lp1 = None THEN Outcome("TokenError", pool, vault, lp)
        ELSE IF lamports1 = None THEN Outcome("Abort", pool, vault, lp)
        ELSE IF vault_b1 = None THEN Outcome("TokenError", pool, vault, lp)
        ELSE IF reserve_a = None \/ reserve_b = None \/ supply = None
        THEN Outcome("Abort", pool, vault, lp)
        ELSE [Outcome("Ok",
                      [pool EXCEPT !.reserve_a = reserve_a,
                                   !.reserve_b = reserve_b,
                                   !.total_lp_supply = supply],
                      [a |-> lamports1, b |-> vault_b1],
                      lp1)
              EXCEPT !.final_a = amount_sol, !.final_b = amount_token,
                     !.credit_a = amount_sol, !.credit_b = amount_token,
                     !.burned = lp_amount]

-----------------------------------------------------------------------------
(* Swap *)

\* the token/token branch: input transfer, quote, output transfer, reserves,
\* fee counter of the input side
process_swap(pool, vault, lp, amount_in, direction_a_to_b, wrong) ==
    IF ~Unpacks(pool) THEN Outcome("InvalidAccountData", pool, vault, lp)
    ELSE IF wrong \in {"pool", "vault"}
    THEN Outcome("InvalidSeeds", pool, vault, lp)
    ELSE
    LET vault_in    == IF direction_a_to_b THEN vault.a ELSE vault.b
        vault_out   == IF direction_a_to_b THEN vault.b ELSE vault.a
        reserve_in  == IF direction_a_to_b THEN pool.reserve_a ELSE pool.reserve_b
        reserve_out == IF direction_a_to_b THEN pool.reserve_b ELSE pool.reserve_a
        vault_in1   == TokenCredit(vault_in, amount_in)
        quote       == calculate_swap_output(amount_in, reserve_in, reserve_out)
        amount_out  == quote.val
        vault_out1  == TokenDebit(vault_out, amount_out)
        reserve_in1  == CheckedAdd64(reserve_in, amount_in)
        reserve_out1 == CheckedSub64(reserve_out, amount_out)
        fee_amount  == FeeAmount(amount_in)
        fee_before  == IF direction_a_to_b THEN pool.fee_collected_a
                       ELSE pool.fee_collected_b
        fee_after   == CheckedAdd64(fee_before, fee_amount)
    IN  IF vault_in1 = None THEN Outcome("TokenError", pool, vault, lp)
        ELSE IF quote.err # "Ok" THEN After(1, Outcome(quote.err, pool, vault, lp))
        ELSE IF vault_out1 = None
        THEN After(1, Outcome("TokenError", pool, vault, lp))
        ELSE IF reserve_in1 = None \/ reserve_out1 = None \/ fee_after = None
        THEN After(2, Outcome("Abort", pool, vault, lp))
        ELSE [Outcome("Ok",
                      IF direction_a_to_b
                      THEN [pool EXCEPT !.reserve_a = reserve_in1,
                                        !.reserve_b = reserve_out1,
                                        !.fee_collected_a = fee_after]
                      ELSE [pool EXCEPT !.reserve_b = reserve_in1,
                                        !.reserve_a = reserve_out1,
                                        !.fee_collected_b = fee_after],
                      IF direction_a_to_b
                      THEN [a |-> vault_in1, b |-> vault_out1]
                      ELSE [a |-> vault_out1, b |-> vault_in1],
                      lp)
              EXCEPT !.amount_out = amount_out, !.fee = fee_amount, !.effects = 2,
                     !.debit_a = IF direction_a_to_b THEN amount_in ELSE 0,
                     !.debit_b = IF direction_a_to_b THEN 0 ELSE amount_in,
                     !.credit_a = IF direction_a_to_b THEN 0 ELSE amount_out,
                     !.credit_b = IF direction_a_to_b THEN amount_out ELSE 0]

\* the native branch: the quote comes first, then the two movements
process_swap_native(pool, vault, lp, amount_in, is_sol_to_token, wrong) ==
    IF ~Unpacks(pool) THEN Outcome("InvalidAccountData", pool, vault, lp)
    ELSE IF wrong \in {"pool", "vault"}
    THEN Outcome("InvalidSeeds", pool, vault, lp)
    ELSE IF is_sol_to_token
    THEN LET quote      == calculate_swap_output(amount_in, pool.reserve_a,
                                                 pool.reserve_b)
             amount_out == quote.val
             lamports1  == LamportsCredit(vault.a, amount_in)
             vault_b1   == TokenDebit(vault.b, amount_out)
             reserve_a  == CheckedAdd64(pool.reserve_a, amount_in)
             reserve_b  == CheckedSub64(pool.reserve_b, amount_out)
             fee_amount == FeeAmount(amount_in)
             fee_after  == CheckedAdd64(pool.fee_collected_a, fee_amount)
         IN  IF quote.err # "Ok" THEN Outcome(quote.err, pool, vault, lp)
             ELSE IF lamports1 = None
             THEN Outcome("TokenError", pool, vault, lp)
             ELSE IF vault_b1 = None
             THEN After(1, Outcome("TokenError", pool, vault, lp))
             ELSE IF reserve_a = None \/ reserve_b = None \/ fee_after = None
             THEN After(2, Outcome("Abort", pool, vault, lp))
             ELSE [Outcome("Ok",
                           [pool EXCEPT !.reserve_a = reserve_a,
                                        !.reserve_b = reserve_b,
                                        !.fee_collected_a = fee_after],
                           [a |-> lamports1, b |-> vault_b1],
                           lp)
                   EXCEPT !.amount_out = amount_out, !.fee = fee_amount,
                          !.effects = 2,
                          !.debit_a = amount_in, !.credit_b = amount_out]
    ELSE LET quote      == calculate_swap_output(amount_in, pool.reserve_b,
                                                 pool.reserve_a)
             amount_out == quote.val
             vault_b1   == TokenCredit(vault.b, amount_in)
             lamports1  == LamportsDebit(vault.a, amount_out)
             reserve_b  == CheckedAdd64(pool.reserve_b, amount_in)
             reserve_a  == CheckedSub64(pool.reserve_a, amount_out)
             fee_amount == FeeAmount(amount_in)
             fee_after  == CheckedAdd64(pool.fee_collected_b, fee_amount)
         IN  IF quote.err # "Ok" THEN Outcome(quote.err, pool, vault, lp)
             ELSE IF vault_b1 = None THEN Outcome("TokenError", pool, vault, lp)
             ELSE IF lamports1 = None
             THEN After(1, Outcome("Abort", pool, vault, lp))
             ELSE IF reserve_a = None \/ reserve_b = None \/ fee_after = None
             THEN After(2, Outcome("Abort", pool, vault, lp))
             ELSE [Outcome("Ok",
                           [pool EXCEPT !.reserve_a = reserve_a,
                                        !.reserve_b = reserve_b,
                                        !.fee_collected_b = fee_after],
                           [a |-> lamports1, b |-> vault_b1],
                           lp)
                   EXCEPT !.amount_out = amount_out, !.fee = fee_amount,
                          !.effects = 2,
                          !.debit_b = amount_in, !.credit_a = amount_out]

-----------------------------------------------------------------------------
(* MultihopSwap and MultihopSwapWithPath *)

\* a hop that trades like a swap but books no fee
multihop_hop_unbooked(pool, vault, current_amount, direction_a_to_b) ==
    LET o == process_swap(pool, vault, 0, current_amount, direction_a_to_b,
                          "none")
    IN  [o EXCEPT !.pool = [@ EXCEPT !.fee_collected_a = pool.fee_collected_a,
                                     !.fee_collected_b = pool.fee_collected_b]]

\* one pass of the hop loop after its checks: input transfer, quote, output
\* transfer, reserves, fee counter, pack
multihop_hop(pool, vault, current_amount, direction_a_to_b) ==
    LET vault_in    == IF direction_a_to_b THEN vault.a ELSE vault.b
        vault_out   == IF direction_a_to_b THEN vault.b ELSE vault.a
        reserve_in  == IF direction_a_to_b THEN pool.reserve_a ELSE pool.reserve_b
        reserve_out == IF direction_a_to_b THEN pool.reserve_b ELSE pool.reserve_a
        vault_in1   == TokenCredit(vault_in, current_amount)
        quote       == calculate_swap_output(current_amount, reserve_in, reserve_out)
        amount_out  == quote.val
        vault_out1  == TokenDebit(vault_out, amount_out)
        reserve_in1  == CheckedAdd64(reserve_in, current_amount)
        reserve_out1 == CheckedSub64(reserve_out, amount_out)
        fee_amount  == FeeAmount(current_amount)
        fee_before  == IF direction_a_to_b THEN pool.fee_collected_a
                       ELSE pool.fee_collected_b
        fee_after   == CheckedAdd64(fee_before, fee_amount)
    IN  IF vault_in1 = None THEN Outcome("TokenError", pool, vault, 0)
        ELSE IF quote.err # "Ok" THEN After(1, Outcome(quote.err, pool, vault, 0))
        ELSE IF vault_out1 = None
        THEN After(1, Outcome("TokenError", pool, vault, 0))
        ELSE IF reserve_in1 = None \/ reserve_out1 = None \/ fee_after = None
        THEN After(2, Outcome("Abort", pool, vault, 0))
        ELSE [Outcome("Ok",
                      IF direction_a_to_b
                      THEN [pool EXCEPT !.reserve_a = reserve_in1,
                                        !.reserve_b = reserve_out1,
                                        !.fee_collected_a = fee_after]
                      ELSE [pool EXCEPT !.reserve_b = reserve_in1,
                                        !.reserve_a = reserve_out1,
                                        !.fee_collected_b = fee_after],
                      IF direction_a_to_b
                      THEN [a |-> vault_in1, b |-> vault_out1]
                      ELSE [a |-> vault_out1, b |-> vault_in1],
                      0)
              EXCEPT !.amount_out = amount_out, !.fee = fee_amount,
                     !.effects = 2]

\* what a multi-hop handler hands back: all pools and vaults, the amount the
\* last hop paid, one entry per completed hop, and the number of transfers
\* carried out when the result was decided
RouteOutcome(result, ps, vs, amount, hops, effects) ==
    [result |-> result, pools |-> ps, vaults |-> vs, amount |-> amount,
     hops |-> hops, effects |-> effects]

HopEntry(p, direction_a_to_b, amount_in, before, vault_before, o) ==
    [pool |-> p, direction |-> direction_a_to_b, amount_in |-> amount_in,
     amount_out |-> o.amount_out, fee |-> o.fee,
     before |-> before, after |-> o.pool,
     vault_before |-> vault_before, vault_after |-> o.vault]

\* Pool::unpack in the multi-hop handlers: a native pool record has another
\* length and does not unpack as a Pool
UnpacksAsPool(pool) == Unpacks(pool) /\ pool.token_a # NATIVE_SOL_MINT

\* num_hops = 2
NumHops == 2

\* no account of any hop is supplied at a wrong address
NoneWrong == <<0, "none">>

\* a hop that compares no address
hop_address_check_skipped(bad, hop, compared) == "Ok"

\* the comparison of a hop's supplied accounts with the addresses derived
\* for them; `compared` are the accounts whose address the handler derives
hop_address_check(bad, hop, compared) ==
    IF bad[1] = hop /\ bad[2] \in compared THEN "InvalidSeeds" ELSE "Ok"

\* a next hop that reads from the holding the previous hop read from
NextInputMintKept(pool, direction_a_to_b) ==
    IF direction_a_to_b THEN pool.token_a ELSE pool.token_b

\* the next hop's input holding is the holding that received this hop's
\* output (current_input_account = target_output_account), whose mint is the
\* asset the hop paid out
NextInputMint(pool, direction_a_to_b) ==
    IF direction_a_to_b THEN pool.token_b ELSE pool.token_a

\* the loop of process_multihop_swap from hop `hop` on; `route` names the
\* pool account of each hop, `input_mint` is the mint read from the
\* current input holding and `bad` names the hop and the account that the
\* caller supplied at a wrong address
RECURSIVE MultihopLoop(_, _, _, _, _, _, _, _, _)

\* "Set up for next hop": the rest of the loop once hop `hop` has handed
\* back `o`
MultihopNextHop(ps, vs, route, bad, hop, current_amount, hops, effects, direction_a_to_b, o) ==
    IF o.result # "Ok"
    THEN RouteOutcome(o.result, ps, vs, current_amount, hops, effects + o.effects)
    ELSE MultihopLoop([ps EXCEPT ![route[hop]] = o.pool],
                      [vs EXCEPT ![route[hop]] = o.vault],
                      route, bad, hop + 1, o.amount_out,
                      NextInputMint(ps[route[hop]], direction_a_to_b),
                      Append(hops, HopEntry(route[hop], direction_a_to_b,
                                            current_amount, ps[route[hop]],
                                            vs[route[hop]], o)),
                      effects + o.effects)

MultihopLoop(ps, vs, route, bad, hop, current_amount, input_mint, hops, effects) ==
    IF hop > NumHops
    THEN RouteOutcome("Ok", ps, vs, current_amount, hops, effects)
    ELSE
    LET p    == route[hop]
        pool == ps[p]
    IN  IF ~UnpacksAsPool(pool)
        THEN RouteOutcome("InvalidAccountData", ps, vs, current_amount, hops,
                          effects)
        ELSE IF hop_address_check(bad, hop, {"pool", "vault"}) # "Ok"
        THEN RouteOutcome("InvalidSeeds", ps, vs, current_amount, hops, effects)
        ELSE IF input_mint # pool.token_a /\ input_mint # pool.token_b
        THEN RouteOutcome("InvalidArgument", ps, vs, current_amount, hops,
                          effects)
        ELSE MultihopNextHop(ps, vs, route, bad, hop, current_amount, hops,
                             effects, input_mint = pool.token_a,
                             multihop_hop(pool, vs[p], current_amount,
                                          input_mint = pool.token_a))

\* a handler that takes whatever the last hop paid
process_multihop_swap_unfloored(ps, vs, route, bad, input_mint, amount_in, minimum_amount_out) ==
    MultihopLoop(ps, vs, route, bad, 1, amount_in, input_mint, <<>>, 0)

\* "Check minimum output requirement", made on what the loop hands back
minimum_output_check(r, ps, vs, minimum_amount_out) ==
    IF r.result # "Ok" THEN r
    ELSE IF r.amount < minimum_amount_out
    THEN RouteOutcome("InsufficientFunds", ps, vs, r.amount, r.hops, r.effects)
    ELSE r

process_multihop_swap(ps, vs, route, bad, input_mint, amount_in, minimum_amount_out) ==
    minimum_output_check(
        MultihopLoop(ps, vs, route, bad, 1, amount_in, input_mint, <<>>, 0),
        ps, vs, minimum_amount_out)

\* the loop of process_multihop_swap_with_path from hop `hop` on; `route`
\* names the pool account of each group of seven accounts supplied
RECURSIVE PathLoop(_, _, _, _, _, _, _, _, _)

\* "Set up for next hop": the rest of the loop once hop `hop` has handed
\* back `o`
PathNextHop(ps, vs, route, bad, token_path, hop, current_amount, hops, effects, direction_a_to_b, o) ==
    IF o.result # "Ok"
    THEN RouteOutcome(o.result, ps, vs, current_amount, hops, effects + o.effects)
    ELSE PathLoop([ps EXCEPT ![route[hop]] = o.pool],
                  [vs EXCEPT ![route[hop]] = o.vault],
                  route, bad, token_path, hop + 1, o.amount_out,
                  Append(hops, HopEntry(route[hop], direction_a_to_b,
                                        current_amount, ps[route[hop]],
                                        vs[route[hop]], o)),
                  effects + o.effects)

PathLoop(ps, vs, route, bad, token_path, hop, current_amount, hops, effects) ==
    IF hop > Len(token_path) - 1
    THEN RouteOutcome("Ok", ps, vs, current_amount, hops, effects)
    ELSE IF hop > Len(route)
    THEN RouteOutcome("NotEnoughAccountKeys", ps, vs, current_amount, hops,
                      effects)
    ELSE
    LET p            == route[hop]
        pool         == ps[p]
        input_token  == token_path[hop]
        output_token == token_path[hop + 1]
    IN  IF ~UnpacksAsPool(pool)
        THEN RouteOutcome("InvalidAccountData", ps, vs, current_amount, hops,
                          effects)
        ELSE IF ~(pool.token_a = input_token /\ pool.token_b = output_token)
                /\ ~(pool.token_b = input_token /\ pool.token_a = output_token)
        THEN RouteOutcome("InvalidArgument", ps, vs, current_amount, hops,
                          effects)
        ELSE IF hop_address_check(bad, hop, {"vault"}) # "Ok"
        THEN RouteOutcome("InvalidSeeds", ps, vs, current_amount, hops, effects)
        ELSE PathNextHop(ps, vs, route, bad, token_path, hop, current_amount,
                         hops, effects,
                         pool.token_a = input_token /\ pool.token_b = output_token,
                         multihop_hop(pool, vs[p], current_amount,
                                      pool.token_a = input_token
                                          /\ pool.token_b = output_token))

\* the part of the path that accounts were supplied for
SuppliedPath(route, token_path) ==
    IF Len(token_path) <= Len(route) + 1 THEN token_path
    ELSE SubSeq(token_path, 1, Len(route) + 1)

\* a handler that swaps along as many hops as it was given accounts for
process_multihop_swap_with_path_supplied(ps, vs, route, bad, token_path, amount_in, minimum_amount_out) ==
    minimum_output_check(
        PathLoop(ps, vs, route, bad, SuppliedPath(route, token_path), 1,
                 amount_in, <<>>, 0),
        ps, vs, minimum_amount_out)

process_multihop_swap_with_path(ps, vs, route, bad, token_path, amount_in, minimum_amount_out) ==
    IF Len(token_path) < 2
    THEN RouteOutcome("InvalidArgument", ps, vs, amount_in, <<>>, 0)
    ELSE minimum_output_check(
             PathLoop(ps, vs, route, bad, token_path, 1, amount_in, <<>>, 0),
             ps, vs, minimum_amount_out)

-----
(* SetFeeTreasury, CollectFees and WithdrawFees *)

\* the accounts a caller may name as treasury: the unset key and one token
\* holding per asset
TreasuryKeys == {NoKey, "tX", "tY", "tT"}

\* the asset a token holding is denominated in
KeyMint(k) ==
    CASE k = "tX" -> "X" [] k = "tY" -> "Y" [] k = "tT" -> "T" [] OTHER -> "-"

\* a handler that writes a fresh record around the new treasury
process_set_fee_treasury_fresh(pool, vault, lp, pool_matches, treasury_matches, treasury, authority) ==
    IF ~pool_matches \/ ~treasury_matches
    THEN Outcome("InvalidArgument", pool, vault, lp)
    ELSE IF ~Unpacks(pool) THEN Outcome("InvalidAccountData", pool, vault, lp)
    ELSE Outcome("Ok",
                 [pool EXCEPT !.fee_treasury = treasury,
                              !.fee_collected_a = 0, !.fee_collected_b = 0],
                 vault, lp)

\* a handler only the treasury in office may use
process_set_fee_treasury_owned(pool, vault, lp, pool_matches, treasury_matches, treasury, authority) ==
    IF ~pool_matches \/ ~treasury_matches
    THEN Outcome("InvalidArgument", pool, vault, lp)
    ELSE IF ~Unpacks(pool) THEN Outcome("InvalidAccountData", pool, vault, lp)
    ELSE IF authority # pool.fee_treasury
    THEN Outcome("InvalidArgument", pool, vault, lp)
    ELSE Outcome("Ok", [pool EXCEPT !.fee_treasury = treasury], vault, lp)

\* pool_matches: pool_info.key == pool; treasury_matches: treasury_info.key
\* == treasury; authority: the third account, which the handler never reads.
\* Both record layouts are handled alike.
process_set_fee_treasury(pool, vault, lp, pool_matches, treasury_matches, treasury, authority) ==
    IF ~pool_matches \/ ~treasury_matches
    THEN Outcome("InvalidArgument", pool, vault, lp)
    ELSE IF ~Unpacks(pool) THEN Outcome("InvalidAccountData", pool, vault, lp)
    ELSE Outcome("Ok", [pool EXCEPT !.fee_treasury = treasury], vault, lp)

\* a handler that resets the counters for whoever asks
process_collect_fees_unchecked(pool, vault, lp, pool_matches, treasury) ==
    IF ~pool_matches THEN Outcome("InvalidArgument", pool, vault, lp)
    ELSE IF ~Unpacks(pool) THEN Outcome("InvalidAccountData", pool, vault, lp)
    ELSE Outcome("Ok",
                 [pool EXCEPT !.fee_collected_a = 0, !.fee_collected_b = 0],
                 vault, lp)

\* treasury is the key of treasury_info
process_collect_fees(pool, vault, lp, pool_matches, treasury) ==
    IF ~pool_matches THEN Outcome("InvalidArgument", pool, vault, lp)
    ELSE IF ~Unpacks(pool) THEN Outcome("InvalidAccountData", pool, vault, lp)
    ELSE IF pool.fee_treasury # treasury
    THEN Outcome("InvalidArgument", pool, vault, lp)
    ELSE Outcome("Ok",
                 [pool EXCEPT !.fee_collected_a = 0, !.fee_collected_b = 0],
                 vault, lp)

\* the token program moves `amount` out of a vault into the treasury holding
\* when the holding is denominated in the vault's asset
TreasuryTransfer(balance, amount, mint, treasury) ==
    IF amount = 0 THEN balance
    ELSE IF KeyMint(treasury) # mint THEN None
    ELSE TokenDebit(balance, amount)

\* fee_collected = fee_collected.checked_sub(amount)
FeeAfterWithdrawKept(fee_collected, amount) == fee_collected

FeeAfterWithdraw(fee_collected, amount) == CheckedSub64(fee_collected, amount)

\* a handler that skips the comparison of the authority with the treasury
process_withdraw_fees_any_authority(pool, vault, lp, pool_matches, treasury, authority, amount_a, amount_b) ==
    IF ~pool_matches THEN Outcome("InvalidArgument", pool, vault, lp)
    ELSE IF ~Unpacks(pool) THEN Outcome("InvalidAccountData", pool, vault, lp)
    ELSE IF pool.fee_treasury # treasury
    THEN Outcome("InvalidArgument", pool, vault, lp)
    ELSE IF amount_a > pool.fee_collected_a \/ amount_b > pool.fee_collected_b
    THEN Outcome("InsufficientFunds", pool, vault, lp)
    ELSE
    LET vault_a1 == TreasuryTransfer(vault.a, amount_a, pool.token_a, treasury)
        vault_b1 == TreasuryTransfer(vault.b, amount_b, pool.token_b, treasury)
    IN  IF vault_a1 = None \/ vault_b1 = None
        THEN Outcome("TokenError", pool, vault, lp)
        ELSE [Outcome("Ok",
                      [pool EXCEPT !.fee_collected_a = @ - amount_a,
                                   !.fee_collected_b = @ - amount_b],
                      [a |-> vault_a1, b |-> vault_b1], lp)
              EXCEPT !.credit_a = amount_a, !.credit_b = amount_b]

\* the token/token branch: treasury and authority are the keys of
\* treasury_info and authority_info
process_withdraw_fees(pool, vault, lp, pool_matches, treasury, authority, amount_a, amount_b) ==
    IF ~pool_matches THEN Outcome("InvalidArgument", pool, vault, lp)
    ELSE IF ~Unpacks(pool) THEN Outcome("InvalidAccountData", pool, vault, lp)
    ELSE IF pool.fee_treasury # treasury
    THEN Outcome("InvalidArgument", pool, vault, lp)
    ELSE IF authority # treasury
    THEN Outcome("InvalidArgument", pool, vault, lp)
    ELSE IF amount_a > pool.fee_collected_a \/ amount_b > pool.fee_collected_b
    THEN Outcome("InsufficientFunds", pool, vault, lp)
    ELSE
    LET vault_a1 == TreasuryTransfer(vault.a, amount_a, pool.token_a, treasury)
        vault_b1 == TreasuryTransfer(vault.b, amount_b, pool.token_b, treasury)
        fee_a    == FeeAfterWithdraw(pool.fee_collected_a, amount_a)
        fee_b    == FeeAfterWithdraw(pool.fee_collected_b, amount_b)
    IN  IF vault_a1 = None \/ vault_b1 = None
        THEN Outcome("TokenError", pool, vault, lp)
        ELSE IF fee_a = None \/ fee_b = None
        THEN Outcome("Abort", pool, vault, lp)
        ELSE [Outcome("Ok",
                      [pool EXCEPT !.fee_collected_a = fee_a,
                                   !.fee_collected_b = fee_b],
                      [a |-> vault_a1, b |-> vault_b1], lp)
              EXCEPT !.credit_a = amount_a, !.credit_b = amount_b]

\* the native branch: the native fee is asked of the system program as a
\* transfer out of the pool account, which the handler does not sign for and
\* which carries data, so the system program refuses it
process_withdraw_fees_native(pool, vault, lp, pool_matches, treasury, authority, amount_a, amount_b) ==
    IF ~pool_matches THEN Outcome("InvalidArgument", pool, vault, lp)
    ELSE IF ~Unpacks(pool) THEN Outcome("InvalidAccountData", pool, vault, lp)
    ELSE IF pool.fee_treasury # treasury
    THEN Outcome("InvalidArgument", pool, vault, lp)
    ELSE IF authority # treasury
    THEN Outcome("InvalidArgument", pool, vault, lp)
    ELSE IF amount_a > pool.fee_collected_a \/ amount_b > pool.fee_collected_b
    THEN Outcome("InsufficientFunds", pool, vault, lp)
    ELSE IF amount_a > 0
    THEN Outcome("MissingRequiredSignature", pool, vault, lp)
    ELSE
    LET vault_b1 == TreasuryTransfer(vault.b, amount_b, pool.token_b, treasury)
        fee_a    == FeeAfterWithdraw(pool.fee_collected_a, amount_a)
        fee_b    == FeeAfterWithdraw(pool.fee_collected_b, amount_b)
    IN  IF vault_b1 = None THEN Outcome("TokenError", pool, vault, lp)
        ELSE IF fee_a = None \/ fee_b = None
        THEN Outcome("Abort", pool, vault, lp)
        ELSE [Outcome("Ok",
                      [pool EXCEPT !.fee_collected_a = fee_a,
                                   !.fee_collected_b = fee_b],
                      [a |-> vault.a, b |-> vault_b1], lp)
              EXCEPT !.credit_a = amount_a, !.credit_b = amount_b]

-----------------------------------------------------------------------------
(* The instructions offered to callers *)

\* amounts a caller may pass: zero, small, the documented example, a value
\* whose product with a small reserve leaves the u64 range, the largest u64
Quarter == (U64Max + 1) \div 4

InitPairs == {<<1000, 2000>>, <<1, 4>>, <<1000, 0>>, <<0, 7>>, <<U64Max, U64Max>>}

AddPairs == {<<100, 300>>, <<1000, 1000>>, <<Quarter, 0>>, <<3, 3>>, <<0, 5>>}

SwapAmounts == {0, 1, 100, 1000, U64Max}

HopAmounts == {100, 1000}

MinimumOuts == {0, 150}

Mints == {"X", "Y", "Z"}

Routes == {<<"pXY", "pYZ">>, <<"pYZ", "pXY">>, <<"pXY", "pXY">>, <<"pXY", "pSOL">>}

PathRoutes == Routes \cup {<<"pXY">>}

TokenPaths == {<<"X", "Y", "Z">>, <<"Z", "Y", "X">>, <<"X", "Y", "X">>,
               <<"X", "Z">>, <<"X">>}

\* the native branches take the native amount from whichever of the two
\* mint accounts is the native mint
NativeArgs(sol_is_token_a, amount_a, amount_b) ==
    IF sol_is_token_a THEN <<amount_a, amount_b>> ELSE <<amount_b, amount_a>>

\* the record of the last call: its arguments (per reserve slot), the state
\* it found, its result and the amounts it moved
NoCall ==
    [op |-> "None", pool |-> "-", result |-> "-",
     amount_a |-> 0, amount_b |-> 0, direction |-> FALSE,
     pre |-> EmptyPool, vault_pre |-> EmptyVault, lp_pre |-> 0,
     final_a |-> 0, final_b |-> 0, liquidity |-> 0,
     debit_a |-> 0, debit_b |-> 0, credit_a |-> 0, credit_b |-> 0,
     burned |-> 0, amount_out |-> 0, fee |-> 0, hops |-> <<>>,
     treasury |-> NoKey, authority |-> NoKey, matches |-> TRUE,
     num_hops |-> 0, effects |-> 0, wrong |-> "none", bad |-> NoneWrong,
     route |-> <<>>, token_path |-> <<>>, input_mint |-> "-"]

Called(op, p, amount_a, amount_b, direction, o) ==
    [NoCall EXCEPT
        !.op = op, !.pool = p, !.result = o.result,
        !.amount_a = amount_a, !.amount_b = amount_b, !.direction = direction,
        !.pre = pools[p], !.vault_pre = vaults[p], !.lp_pre = lp_mint[p],
        !.final_a = o.final_a, !.final_b = o.final_b, !.liquidity = o.liquidity,
        !.debit_a = o.debit_a, !.debit_b = o.debit_b,
        !.credit_a = o.credit_a, !.credit_b = o.credit_b,
        !.burned = o.burned, !.amount_out = o.amount_out, !.fee = o.fee,
        !.effects = o.effects]

RouteCalled(op, num_hops, amount_in, minimum_amount_out, r) ==
    [NoCall EXCEPT
        !.op = op, !.result = r.result, !.num_hops = num_hops,
        !.amount_a = amount_in, !.amount_b = minimum_amount_out,
        !.amount_out = r.amount, !.hops = r.hops, !.effects = r.effects]

\* the record of a call of one of the three fee instructions
FeeCalled(op, p, amount_a, amount_b, matches, treasury, authority, o) ==
    [Called(op, p, amount_a, amount_b, FALSE, o) EXCEPT
        !.matches = matches, !.treasury = treasury, !.authority = authority]

\* the share of an input that a swap books as fee
FeeShare(amount_in) == (amount_in * FeeBooked) \div FeeDenominator

NoFees == [a |-> 0, b |-> 0]

\* the fee shares of the hops from hop i on, added to the side they came in on
RECURSIVE HopsRetained(_, _, _)
HopsRetained(ledger, hops, i) ==
    IF i > Len(hops) THEN ledger
    ELSE LET h == hops[i]
             l == ledger[h.pool]
         IN  HopsRetained(
                 [ledger EXCEPT ![h.pool] =
                     IF h.direction
                     THEN [l EXCEPT !.a = @ + FeeShare(h.amount_in)]
                     ELSE [l EXCEPT !.b = @ + FeeShare(h.amount_in)]],
                 hops, i + 1)

\* the history variable after a call
Retained(ledger, call) ==
    IF call.result # "Ok" THEN ledger
    ELSE IF call.op = "Swap"
    THEN [ledger EXCEPT ![call.pool] =
             IF call.direction
             THEN [@ EXCEPT !.a = @ + FeeShare(call.amount_a)]
             ELSE [@ EXCEPT !.b = @ + FeeShare(call.amount_a)]]
    ELSE IF call.op \in {"MultihopSwap", "MultihopSwapWithPath"}
    THEN HopsRetained(ledger, call.hops, 1)
    ELSE IF call.op = "WithdrawFees"
    THEN [ledger EXCEPT ![call.pool] =
             [a |-> @.a - call.amount_a, b |-> @.b - call.amount_b]]
    ELSE ledger

\* the value of steps after an instruction failed: no bound lies above it
Stopped == MaxSteps + MaxFeeSteps

\* a handler's effects are kept when it returns Ok and discarded otherwise
Commit(p, o) ==
    /\ UNCHANGED calc
    /\ retained' = Retained(retained, last')
    /\ pools' = [pools EXCEPT ![p] = o.pool]
    /\ vaults' = [vaults EXCEPT ![p] = o.vault]
    /\ lp_mint' = [lp_mint EXCEPT ![p] = o.lp]
    /\ steps' = IF o.result = "Ok" THEN steps + 1 ELSE Stopped

CommitRoute(r) ==
    /\ UNCHANGED calc
    /\ retained' = Retained(retained, last')
    /\ pools' = IF r.result = "Ok" THEN r.pools ELSE pools
    /\ vaults' = IF r.result = "Ok" THEN r.vaults ELSE vaults
    /\ UNCHANGED lp_mint
    /\ steps' = IF r.result = "Ok" THEN steps + 1 ELSE Stopped

\* a multi-hop call before its handler has run
NoRoute == RouteOutcome("-", pools, vaults, 0, <<>>, 0)

\* the step of a multi-hop instruction: `call` names the instruction and
\* its inputs, `r` is what the handler hands back
TakeRoute(call, r) ==
    /\ last' = [call EXCEPT !.result = r.result, !.amount_out = r.amount,
                            !.hops = r.hops, !.effects = r.effects]
    /\ CommitRoute(r)

\* the record of a function applied on its own
NoCalc ==
    [fn |-> "none", x |-> 0, y |-> 0, z |-> 0,
     quote |-> QuoteErr("-"), outcome |-> Outcome("-", EmptyPool, EmptyVault, 0),
     larger |-> 0, larger_quote |-> QuoteErr("-"), iterations |-> 0]

Init ==
    /\ pools = [p \in PoolIds |-> EmptyPool]
    /\ vaults = [p \in PoolIds |-> EmptyVault]
    /\ lp_mint = [p \in PoolIds |-> 0]
    /\ last = NoCall
    /\ steps = 0
    /\ calc = NoCalc
    /\ retained = [p \in PoolIds |-> NoFees]

InitPoolOf(bound, ids, pairs, wrongs) ==
    /\ steps < bound
    /\ \E p \in ids, pair \in pairs, sol_is_token_a \in BOOLEAN, wrong \in wrongs :
        /\ IsNativePool(p) \/ sol_is_token_a
        /\ LET args == IF IsNativePool(p)
                       THEN NativeArgs(sol_is_token_a, pair[1], pair[2])
                       ELSE pair
               o == IF IsNativePool(p)
                    THEN process_init_pool_native(p, pools[p], vaults[p],
                                                  lp_mint[p], args[1], args[2],
                                                  wrong)
                    ELSE process_init_pool(p, pools[p], vaults[p], lp_mint[p],
                                           args[1], args[2], wrong)
           IN  /\ last' = [Called("InitPool", p, args[1], args[2], FALSE, o)
                               EXCEPT !.wrong = wrong]
               /\ Commit(p, o)

InitPool == InitPoolOf(MaxSteps, PoolIds, InitPairs, {"none"})

AddLiquidityOf(bound, ids, pairs) ==
    /\ steps < bound
    /\ \E p \in ids, pair \in pairs, sol_is_token_a \in BOOLEAN :
        /\ IsNativePool(p) \/ sol_is_token_a
        /\ LET args == IF IsNativePool(p)
                       THEN NativeArgs(sol_is_token_a, pair[1], pair[2])
                       ELSE pair
               o == IF IsNativePool(p)
                    THEN process_add_liquidity_native(pools[p], vaults[p],
                                                      lp_mint[p], args[1], args[2])
                    ELSE process_add_liquidity(pools[p], vaults[p], lp_mint[p],
                                               args[1], args[2])
           IN  /\ last' = Called("AddLiquidity", p, args[1], args[2], FALSE, o)
               /\ Commit(p, o)

AddLiquidity == AddLiquidityOf(MaxSteps, PoolIds, AddPairs)

RemoveLiquidityOf(bound, ids) ==
    \E p \in ids :
        \E lp_amount \in {1, last.liquidity, pools[p].total_lp_supply,
                          pools[p].total_lp_supply + 1} :
            /\ steps < bound
            /\ lp_amount <= U64Max
            /\ LET o == IF IsNativePool(p)
                        THEN process_remove_liquidity_native(pools[p], vaults[p],
                                                             lp_mint[p], lp_amount)
                        ELSE process_remove_liquidity(pools[p], vaults[p],
                                                      lp_mint[p], lp_amount)
               IN  /\ last' = Called("RemoveLiquidity", p, lp_amount, 0, FALSE, o)
                   /\ Commit(p, o)

RemoveLiquidity == RemoveLiquidityOf(MaxSteps, PoolIds)

SwapOf(bound, ids, amounts, wrongs) ==
    /\ steps < bound
    /\ \E p \in ids, amount_in \in amounts, direction_a_to_b \in BOOLEAN,
          wrong \in wrongs :
        /\ LET o == IF IsNativePool(p)
                    THEN process_swap_native(pools[p], vaults[p], lp_mint[p],
                                             amount_in, direction_a_to_b, wrong)
                    ELSE process_swap(pools[p], vaults[p], lp_mint[p],
                                      amount_in, direction_a_to_b, wrong)
           IN  /\ last' = [Called("Swap", p, amount_in, 0, direction_a_to_b, o)
                               EXCEPT !.wrong = wrong]
               /\ Commit(p, o)

Swap == SwapOf(MaxSteps, PoolIds, SwapAmounts, {"none"})

MultihopSwapOf(bound, routes, mints, amounts, minimums, bads) ==
    /\ steps < bound
    /\ \E route \in routes, input_mint \in mints, amount_in \in amounts,
          minimum_amount_out \in minimums, bad \in bads :
        TakeRoute([RouteCalled("MultihopSwap", NumHops, amount_in,
                               minimum_amount_out, NoRoute)
                       EXCEPT !.route = route, !.bad = bad,
                              !.input_mint = input_mint],
                  process_multihop_swap(pools, vaults, route, bad, input_mint,
                                        amount_in, minimum_amount_out))

MultihopSwap ==
    MultihopSwapOf(MaxSteps, Routes, Mints, HopAmounts, MinimumOuts, {NoneWrong})

MultihopSwapWithPathOf(bound, routes, paths, amounts, minimums, bads) ==
    /\ steps < bound
    /\ \E route \in routes, token_path \in paths, amount_in \in amounts,
          minimum_amount_out \in minimums, bad \in bads :
        TakeRoute([RouteCalled("MultihopSwapWithPath", Len(token_path) - 1,
                               amount_in, minimum_amount_out, NoRoute)
                       EXCEPT !.route = route, !.bad = bad,
                              !.token_path = token_path],
                  process_multihop_swap_with_path(pools, vaults, route, bad,
                                                  token_path, amount_in,
                                                  minimum_amount_out))

MultihopSwapWithPath ==
    MultihopSwapWithPathOf(MaxSteps, PathRoutes, TokenPaths, HopAmounts,
                           MinimumOuts, {NoneWrong})

\* requested fee amounts: nothing, the fee of one swap of 1000 on either
\* side, one more than that, and a little of both
WithdrawPairs == {<<0, 0>>, <<3, 0>>, <<0, 3>>, <<4, 0>>, <<1, 1>>}

SetFeeTreasuryOf(bound, ids, keys) ==
    /\ steps < bound
    /\ \E p \in ids, treasury \in keys, authority \in {NoKey, "tX"},
          matches \in BOOLEAN :
        /\ LET o == process_set_fee_treasury(pools[p], vaults[p], lp_mint[p],
                                              matches, matches, treasury,
                                              authority)
           IN  /\ last' = FeeCalled("SetFeeTreasury", p, 0, 0, matches,
                                     treasury, authority, o)
               /\ Commit(p, o)

SetFeeTreasury == SetFeeTreasuryOf(MaxSteps, PoolIds, TreasuryKeys)

CollectFeesOf(bound, ids, keys) ==
    /\ steps < bound
    /\ \E p \in ids, treasury \in keys, matches \in BOOLEAN :
        /\ LET o == process_collect_fees(pools[p], vaults[p], lp_mint[p],
                                          matches, treasury)
           IN  /\ last' = FeeCalled("CollectFees", p, 0, 0, matches,
                                     treasury, NoKey, o)
               /\ Commit(p, o)

CollectFees == CollectFeesOf(MaxSteps, PoolIds, TreasuryKeys)

WithdrawFeesOf(bound, ids, keys, pairs) ==
    /\ steps < bound
    /\ \E p \in ids, treasury \in keys, authority \in keys,
          pair \in pairs, matches \in BOOLEAN :
        /\ authority \in {treasury, "tX"}
        /\ LET o == IF IsNativePool(p)
                    THEN process_withdraw_fees_native(
                             pools[p], vaults[p], lp_mint[p], matches,
                             treasury, authority, pair[1], pair[2])
                    ELSE process_withdraw_fees(
                             pools[p], vaults[p], lp_mint[p], matches,
                             treasury, authority, pair[1], pair[2])
           IN  /\ last' = FeeCalled("WithdrawFees", p, pair[1], pair[2],
                                     matches, treasury, authority, o)
               /\ Commit(p, o)

WithdrawFees == WithdrawFeesOf(MaxSteps, PoolIds, TreasuryKeys, WithdrawPairs)

Next ==
    \/ InitPool
    \/ AddLiquidity
    \/ RemoveLiquidity
    \/ Swap
    \/ MultihopSwap
    \/ MultihopSwapWithPath
    \/ SetFeeTreasury
    \/ CollectFees
    \/ WithdrawFees

Spec == Init /\ [][Next]_vars

-----------------------------------------------------------------------------
(* Longer behaviours of one token pool and one native pool, on which fees
   are booked, collected and withdrawn *)

FeePools == {"pXY", "pSOL"}

FeeInitPool == InitPoolOf(MaxFeeSteps, FeePools, {<<1000, 1000>>}, {"none"})

FeeAddLiquidity == AddLiquidityOf(MaxFeeSteps, FeePools, {<<100, 300>>})

FeeRemoveLiquidity == RemoveLiquidityOf(MaxFeeSteps, {"pXY"})

FeeSwap == SwapOf(MaxFeeSteps, FeePools, {1000}, {"none"})

FeeMultihopSwap == MultihopSwapOf(MaxFeeSteps, {<<"pXY", "pXY">>}, {"X"}, {1000}, {0}, {NoneWrong})

FeeMultihopSwapWithPath ==
    MultihopSwapWithPathOf(MaxFeeSteps, {<<"pXY", "pXY">>}, {<<"Y", "X", "Y">>},
                           {1000}, {0}, {NoneWrong})

FeeSetFeeTreasury == SetFeeTreasuryOf(MaxFeeSteps, FeePools, TreasuryKeys)

FeeCollectFees == CollectFeesOf(MaxFeeSteps, FeePools, TreasuryKeys)

FeeWithdrawFees == WithdrawFeesOf(MaxFeeSteps, FeePools, TreasuryKeys, WithdrawPairs)

NextFees ==
    \/ FeeInitPool
    \/ FeeAddLiquidity
    \/ FeeRemoveLiquidity
    \/ FeeSwap
    \/ FeeMultihopSwap
    \/ FeeMultihopSwapWithPath
    \/ FeeSetFeeTreasury
    \/ FeeCollectFees
    \/ FeeWithdrawFees

SpecFees == Init /\ [][NextFees]_vars

-----------------------------------------------------------------------------
(* Calls that supply an account at a wrong address, a zero amount or a
   path that does not fit the pools *)

\* the number of instructions that take effect in these behaviours
MaxCheckSteps == 3

\* the hop and the account supplied at a wrong address in a multi-hop call
BadHops == {NoneWrong, <<1, "vault">>, <<2, "vault">>, <<1, "pool">>, <<2, "pool">>}

CheckedInitPool ==
    InitPoolOf(MaxCheckSteps, PoolIds, {<<1000, 1000>>, <<1000, 0>>}, WrongAccounts)

CheckedSwap == SwapOf(MaxCheckSteps, PoolIds, {0, 100}, {"none", "pool", "vault"})

CheckedMultihopSwap ==
    MultihopSwapOf(MaxCheckSteps, Routes, Mints, {100}, {0}, BadHops)

CheckedMultihopSwapWithPath ==
    MultihopSwapWithPathOf(MaxCheckSteps, PathRoutes, TokenPaths, {100}, {0}, BadHops)

NextChecks ==
    \/ CheckedInitPool
    \/ CheckedSwap
    \/ CheckedMultihopSwap
    \/ CheckedMultihopSwapWithPath

SpecChecks == Init /\ [][NextChecks]_vars

-----------------------------------------------------------------------------
(* The pricing and first-deposit functions applied on their own *)

MathInputs == (0 .. MaxSmall) \cup {100, 1000, 2000, Quarter, U64Max - 1, U64Max}

\* pool records a first deposit can meet: no share in circulation and at
\* least one reserve at zero (a pool emptied by RemoveLiquidity, or created
\* with a zero amount)
DrainedPools ==
    {[EmptyPool EXCEPT !.exists = TRUE, !.token_a = "X", !.token_b = "Y",
                       !.reserve_a = r[1], !.reserve_b = r[2]] :
        r \in {<<0, 0>>, <<5, 0>>, <<0, 7>>}}

CallQuote ==
    /\ calc = NoCalc
    /\ \E amount_in \in MathInputs, reserve_in \in MathInputs,
          reserve_out \in MathInputs :
        /\ calc' = [NoCalc EXCEPT
                       !.fn = "calculate_swap_output",
                       !.x = amount_in, !.y = reserve_in, !.z = reserve_out,
                       !.quote = calculate_swap_output(amount_in, reserve_in,
                                                       reserve_out)]
        /\ UNCHANGED <<pools, vaults, lp_mint, last, steps, retained>>

\* two quotes against the same reserves, the second for an input at least
\* as large as the first
CallQuotePair ==
    /\ calc = NoCalc
    /\ \E amount_in \in MathInputs, larger_in \in MathInputs,
          reserve_in \in MathInputs, reserve_out \in MathInputs :
        /\ amount_in <= larger_in
        /\ calc' = [NoCalc EXCEPT
                       !.fn = "calculate_swap_output twice",
                       !.x = amount_in, !.y = reserve_in, !.z = reserve_out,
                       !.quote = calculate_swap_output(amount_in, reserve_in,
                                                       reserve_out),
                       !.larger = larger_in,
                       !.larger_quote = calculate_swap_output(larger_in, reserve_in,
                                                              reserve_out)]
        /\ UNCHANGED <<pools, vaults, lp_mint, last, steps, retained>>

CallInitPool ==
    /\ calc = NoCalc
    /\ \E amount_a \in MathInputs, amount_b \in MathInputs, p \in PoolIds :
        /\ calc' = [NoCalc EXCEPT
                       !.fn = "process_init_pool",
                       !.x = amount_a, !.y = amount_b,
                       !.outcome =
                           IF IsNativePool(p)
                           THEN process_init_pool_native(p, EmptyPool, EmptyVault,
                                                         0, amount_a, amount_b,
                                                         "none")
                           ELSE process_init_pool(p, EmptyPool, EmptyVault, 0,
                                                  amount_a, amount_b, "none")]
        /\ UNCHANGED <<pools, vaults, lp_mint, last, steps, retained>>

CallFirstAddLiquidity ==
    /\ calc = NoCalc
    /\ \E amount_a \in MathInputs, amount_b \in MathInputs, pool \in DrainedPools,
          native \in BOOLEAN :
        /\ calc' = [NoCalc EXCEPT
                       !.fn = "process_add_liquidity",
                       !.x = amount_a, !.y = amount_b,
                       !.outcome =
                           LET vault == [a |-> pool.reserve_a, b |-> pool.reserve_b]
                           IN  IF native
                               THEN process_add_liquidity_native(
                                        [pool EXCEPT !.token_a = NATIVE_SOL_MINT,
                                                     !.token_b = "T"],
                                        vault, 0, amount_a, amount_b)
                               ELSE process_add_liquidity(pool, vault, 0,
                                                          amount_a, amount_b)]
        /\ UNCHANGED <<pools, vaults, lp_mint, last, steps, retained>>

NextMath ==
    \/ CallQuote
    \/ CallQuotePair
    \/ CallInitPool
    \/ CallFirstAddLiquidity

SpecMath == Init /\ [][NextMath]_vars

-----------------------------------------------------------------------------
(* Properties *)

Product(pool) == pool.reserve_a * pool.reserve_b

IsRouteOp(op) == op \in {"MultihopSwap", "MultihopSwapWithPath"}

\* C1: a successful Swap, and every hop of a successful MultihopSwap or
\* MultihopSwapWithPath, leaves reserve_a * reserve_b of the pool it acts on
\* at least as large as it found it.
C1_ProductNeverDecreases ==
    /\ (last.op = "Swap" /\ last.result = "Ok")
           => Product(pools[last.pool]) >= Product(last.pre)
    /\ (IsRouteOp(last.op) /\ last.result = "Ok")
           => \A i \in 1 .. Len(last.hops) :
                  Product(last.hops[i].after) >= Product(last.hops[i].before)

\* a two-hop route went through and both hops paid something out
C1_Witness ==
    /\ IsRouteOp(last.op) /\ last.result = "Ok"
    /\ Len(last.hops) = 2
    /\ \A i \in 1 .. 2 : last.hops[i].amount_out > 0

\* C2: after a successful AddLiquidity the caller is out of pocket by exactly
\* the final pair, is never paid more than was taken, and the custody of the
\* pool has grown by what was added to the reserves.
C2_AddLiquidityDebitsFinalPair ==
    (last.op = "AddLiquidity" /\ last.result = "Ok") =>
        /\ last.debit_a - last.credit_a = last.final_a
        /\ last.debit_b - last.credit_b = last.final_b
        /\ last.credit_a <= last.debit_a
        /\ last.credit_b <= last.debit_b
        /\ vaults[last.pool].a - last.vault_pre.a
               = pools[last.pool].reserve_a - last.pre.reserve_a
        /\ vaults[last.pool].b - last.vault_pre.b
               = pools[last.pool].reserve_b - last.pre.reserve_b

\* C3: in every pool record, reserve_a is zero exactly when no share is in
\* circulation.
C3_ReserveZeroIffNoShares ==
    \A p \in PoolIds :
        (pools[p].reserve_a = 0) <=> (pools[p].total_lp_supply = 0)

\* the priced input times the output reserve fits the wide integer type
QuoteFits(amount_in, reserve_out) ==
    amount_in * FeeNumerator <= U128Max \div reserve_out

QuoteFloor(amount_in, reserve_in, reserve_out) ==
    (amount_in * FeeNumerator * reserve_out)
        \div (reserve_in * FeeDenominator + amount_in * FeeNumerator)

IsQuoteCall == calc.fn = "calculate_swap_output"

\* C4 as stated: for all positive arguments calculate_swap_output returns
\* floor(amount_in*997*reserve_out / (reserve_in*1000 + amount_in*997)).
C4_QuoteIsFloorForAllInputs ==
    (IsQuoteCall /\ calc.x > 0 /\ calc.y > 0 /\ calc.z > 0) =>
        /\ calc.quote.err = "Ok"
        /\ calc.quote.val = QuoteFloor(calc.x, calc.y, calc.z)

\* C4 as amended: for positive arguments whose product amount_in*997*reserve_out
\* fits the wide integer type, calculate_swap_output returns that floor; for
\* positive arguments whose product does not fit it returns InvalidArgument;
\* and the quote of 100 against reserves (1000, 2000) is 181.
C4_QuoteIsFloorWhenProductFits ==
    /\ (IsQuoteCall /\ calc.x > 0 /\ calc.y > 0 /\ calc.z > 0) =>
           IF QuoteFits(calc.x, calc.z)
           THEN /\ calc.quote.err = "Ok"
                /\ calc.quote.val = QuoteFloor(calc.x, calc.y, calc.z)
           ELSE calc.quote.err = "InvalidArgument"
    /\ (IsQuoteCall /\ calc.x = 100 /\ calc.y = 1000 /\ calc.z = 2000) =>
           calc.quote = QuoteOk(181)

\* the documented example was evaluated
C4_Witness ==
    /\ IsQuoteCall /\ calc.x = 100 /\ calc.y = 1000 /\ calc.z = 2000
    /\ calc.quote.err = "Ok"

C6_AddLiquidityKeepsRatio ==
    (/\ last.op = "AddLiquidity" /\ last.result = "Ok"
     /\ last.pre.reserve_a > 0 /\ last.pre.reserve_b > 0) =>
        LET reserve_a  == last.pre.reserve_a
            reserve_b  == last.pre.reserve_b
            supply     == last.pre.total_lp_supply
            required_b == (last.amount_a * reserve_b) \div reserve_a
            final_a    == IF required_b <= last.amount_b THEN last.amount_a
                          ELSE (last.amount_b * reserve_a) \div reserve_b
            final_b    == IF required_b <= last.amount_b THEN required_b
                          ELSE last.amount_b
            shares     == (final_a * supply) \div reserve_a
        IN  /\ last.final_a = final_a
            /\ last.final_b = final_b
            /\ last.liquidity = shares
            /\ pools[last.pool].reserve_a = reserve_a + final_a
            /\ pools[last.pool].reserve_b = reserve_b + final_b
            /\ pools[last.pool].total_lp_supply = supply + shares

C8_RemoveMoreThanSupplyFails ==
    (last.op = "RemoveLiquidity" /\ last.pre.exists
     /\ last.amount_a > last.pre.total_lp_supply) =>
        /\ last.result \in {"TokenError", "Abort"}
        /\ pools[last.pool] = last.pre
        /\ vaults[last.pool] = last.vault_pre
        /\ lp_mint[last.pool] = last.lp_pre

\* one share more than a funded pool has issued was asked for
C8_Witness ==
    /\ last.op = "RemoveLiquidity" /\ last.pre.exists
    /\ last.pre.total_lp_supply > 0
    /\ last.amount_a = last.pre.total_lp_supply + 1
    /\ last.result # "Ok"

\* C9: when a successful AddLiquidity is followed at once by RemoveLiquidity
\* of exactly the shares it minted, what is paid out is at most the final
\* pair of the deposit.
C9_AddThenRemoveReturnsAtMostDeposit ==
    [][(/\ last.op = "AddLiquidity" /\ last.result = "Ok"
        /\ last'.op = "RemoveLiquidity" /\ last'.result = "Ok"
        /\ last'.pool = last.pool
        /\ last'.amount_a = last.liquidity)
       => (/\ last'.credit_a <= last.final_a
           /\ last'.credit_b <= last.final_b)]_vars

IsFloorSqrt(r, n) == r * r <= n /\ n < (r + 1) * (r + 1)

IsFirstDeposit == calc.fn \in {"process_init_pool", "process_add_liquidity"}

FeeStep(before, after, direction, amount_in) ==
    IF direction
    THEN /\ after.fee_collected_a = before.fee_collected_a + FeeShare(amount_in)
         /\ after.fee_collected_b = before.fee_collected_b
    ELSE /\ after.fee_collected_b = before.fee_collected_b + FeeShare(amount_in)
         /\ after.fee_collected_a = before.fee_collected_a

\* the last hop of a route that went through pool p
LastHopOn(hops, p) ==
    LET on == {i \in 1 .. Len(hops) : hops[i].pool = p}
    IN  CHOOSE i \in on : \A j \in on : j <= i

\* C11: every successful Swap, and every hop of a successful multi-hop swap,
\* adds exactly floor(amount_in * 3 / 1000) to the fee counter of its input
\* side and leaves the counter of the output side unchanged; the records a
\* multi-hop swap leaves behind are those of its hops
C11_SwapAddsFeeShareToInputSide ==
    /\ (last.op = "Swap" /\ last.result = "Ok")
           => FeeStep(last.pre, pools[last.pool], last.direction, last.amount_a)
    /\ (IsRouteOp(last.op) /\ last.result = "Ok")
           => /\ \A i \in 1 .. Len(last.hops) :
                     LET h == last.hops[i]
                     IN  FeeStep(h.before, h.after, h.direction, h.amount_in)
              /\ \A i \in 1 .. Len(last.hops) :
                     LET p == last.hops[i].pool
                     IN  pools[p] = last.hops[LastHopOn(last.hops, p)].after

\* a two-hop swap whose two hops both book a positive fee
C11_Witness ==
    /\ IsRouteOp(last.op)
    /\ last.result = "Ok"
    /\ Len(last.hops) = NumHops
    /\ \A i \in 1 .. NumHops : FeeShare(last.hops[i].amount_in) > 0

\* the call lowered a fee counter of pool p
CounterFell(p) ==
    \/ pools'[p].fee_collected_a < pools[p].fee_collected_a
    \/ pools'[p].fee_collected_b < pools[p].fee_collected_b

\* the call named the pool account and the treasury stored in its record
\* and, for a withdrawal, came from that treasury
PassedTreasuryCheck(call, pool) ==
    /\ call.matches
    /\ call.treasury = pool.fee_treasury
    /\ call.op = "WithdrawFees" => call.authority = call.treasury

\* C12 as stated: a fee counter decreases only as the effect of a WithdrawFees
\* that passed the treasury-identity check; no other operation lowers it
C12_CounterFallsOnlyByWithdrawFees ==
    [][\A p \in PoolIds :
          CounterFell(p) =>
              /\ last'.op = "WithdrawFees"
              /\ last'.pool = p
              /\ last'.result = "Ok"
              /\ PassedTreasuryCheck(last', pools[p])]_vars

\* C12 amended: a fee counter decreases only as the effect of a WithdrawFees
\* or a CollectFees on that pool that passed the treasury-identity check; no
\* other operation lowers it
C12_CounterFallsOnlyByWithdrawOrCollect ==
    [][\A p \in PoolIds :
          CounterFell(p) =>
              /\ last'.op \in {"WithdrawFees", "CollectFees"}
              /\ last'.pool = p
              /\ last'.result = "Ok"
              /\ PassedTreasuryCheck(last', pools[p])]_vars

\* a withdrawal has just lowered a counter
C12_Witness ==
    /\ last.op = "WithdrawFees"
    /\ last.result = "Ok"
    /\ pools[last.pool].fee_collected_a < last.pre.fee_collected_a

\* the call raised a fee counter of pool p
CounterRose(p) ==
    \/ pools'[p].fee_collected_a > pools[p].fee_collected_a
    \/ pools'[p].fee_collected_b > pools[p].fee_collected_b

\* C13: a fee counter increases only as the effect of a Swap, MultihopSwap or
\* MultihopSwapWithPath; InitPool sets both counters to 0; AddLiquidity,
\* RemoveLiquidity and SetFeeTreasury leave both counters unchanged
C13_CounterRisesOnlyBySwaps ==
    [][/\ \A p \in PoolIds :
              CounterRose(p) =>
                  /\ last'.result = "Ok"
                  /\ last'.op \in {"Swap", "MultihopSwap", "MultihopSwapWithPath"}
       /\ (last'.op = "InitPool" /\ last'.result = "Ok")
              => /\ pools'[last'.pool].fee_collected_a = 0
                 /\ pools'[last'.pool].fee_collected_b = 0
       /\ last'.op \in {"AddLiquidity", "RemoveLiquidity", "SetFeeTreasury"}
              => \A p \in PoolIds :
                     /\ pools'[p].fee_collected_a = pools[p].fee_collected_a
                     /\ pools'[p].fee_collected_b = pools[p].fee_collected_b]_vars

\* a SetFeeTreasury that took effect on a pool with fees booked
C13_Witness ==
    /\ last.op = "SetFeeTreasury"
    /\ last.result = "Ok"
    /\ last.pre.fee_collected_a + last.pre.fee_collected_b > 0
    /\ pools[last.pool].fee_treasury # last.pre.fee_treasury

\* C14: in every reachable state each fee counter is at most the fee retained
\* on its side: the sum of floor(amount_in * 3 / 1000) over the swaps and
\* hops that came in on that side since the pool was created, less the
\* amounts withdrawn from the counter by WithdrawFees
C14_CounterAtMostRetained ==
    \A p \in PoolIds :
        /\ pools[p].fee_collected_a <= retained[p].a
        /\ pools[p].fee_collected_b <= retained[p].b

\* a withdrawal of part of the fees of two swaps: the counter still stands
\* at what is retained
C14_Witness ==
    /\ last.op = "WithdrawFees"
    /\ last.result = "Ok"
    /\ last.amount_b > 0
    /\ pools[last.pool].fee_collected_b > 0
    /\ pools[last.pool].fee_collected_b = retained[last.pool].b

\* a WithdrawFees that asked for more than a counter held
Overdrawn(call) ==
    /\ call.op = "WithdrawFees"
    /\ \/ call.amount_a > call.pre.fee_collected_a
       \/ call.amount_b > call.pre.fee_collected_b

\* the call left the record and the custody of its pool as it found them
LeftPoolAlone(call) ==
    /\ pools[call.pool] = call.pre
    /\ vaults[call.pool] = call.vault_pre

\* C15 as stated, for calls that name an existing pool: a WithdrawFees with
\* amount_a > fee_accrued_a or amount_b > fee_accrued_b fails with
\* InsufficientFunds and leaves the pool record and custody unchanged
C15_OverdrawFailsWithInsufficientFunds ==
    (Overdrawn(last) /\ last.matches /\ Unpacks(last.pre))
        => /\ last.result = "InsufficientFunds"
           /\ LeftPoolAlone(last)

\* C15 amended: a WithdrawFees with amount_a > fee_accrued_a or
\* amount_b > fee_accrued_b fails and leaves the pool record and custody
\* unchanged; on an existing pool it fails with InsufficientFunds when the
\* supplied treasury and the caller are the stored treasury, and with
\* InvalidArgument when they are not
C15_OverdrawFails ==
    Overdrawn(last)
        => /\ last.result # "Ok"
           /\ LeftPoolAlone(last)
           /\ (last.matches /\ Unpacks(last.pre))
                  => last.result = IF PassedTreasuryCheck(last, last.pre)
                                   THEN "InsufficientFunds"
                                   ELSE "InvalidArgument"

\* one more than the fee of a swap is asked of the stored treasury
C15_Witness ==
    /\ Overdrawn(last)
    /\ last.amount_a > last.pre.fee_collected_a
    /\ last.pre.fee_collected_a > 0
    /\ last.pre.fee_treasury # NoKey
    /\ last.result = "InsufficientFunds"

\* C16: WithdrawFees succeeds only if the caller identity equals the stored
\* fee treasury; on success it lowers the two counters by exactly amount_a
\* and amount_b, moves exactly those amounts from pool custody to the
\* treasury, and leaves reserves, share supply and fee treasury unchanged
C16_WithdrawFeesPaysTreasuryExactly ==
    (last.op = "WithdrawFees" /\ last.result = "Ok")
        => LET pool == pools[last.pool]
               pre  == last.pre
           IN  /\ last.authority = pre.fee_treasury
               /\ last.treasury = pre.fee_treasury
               /\ pool.fee_collected_a = pre.fee_collected_a - last.amount_a
               /\ pool.fee_collected_b = pre.fee_collected_b - last.amount_b
               /\ pool.fee_collected_a >= 0
               /\ pool.fee_collected_b >= 0
               /\ vaults[last.pool].a = last.vault_pre.a - last.amount_a
               /\ vaults[last.pool].b = last.vault_pre.b - last.amount_b
               /\ last.credit_a = last.amount_a
               /\ last.credit_b = last.amount_b
               /\ last.debit_a = 0
               /\ last.debit_b = 0
               /\ pool.reserve_a = pre.reserve_a
               /\ pool.reserve_b = pre.reserve_b
               /\ pool.total_lp_supply = pre.total_lp_supply
               /\ lp_mint[last.pool] = last.lp_pre
               /\ pool.fee_treasury = pre.fee_treasury

\* the treasury of a token pool has withdrawn the whole fee of one side
C16_Witness ==
    /\ last.op = "WithdrawFees"
    /\ last.result = "Ok"
    /\ last.amount_a > 0
    /\ last.amount_a = last.pre.fee_collected_a
    /\ last.authority # NoKey
    /\ vaults[last.pool].a < last.vault_pre.a

\* C17: CollectFees fails, changing nothing, unless the supplied treasury is
\* the stored fee treasury; on success it sets both counters to zero, moves
\* no value and leaves reserves, share supply and fee treasury unchanged
C17_CollectFeesResetsCounters ==
    last.op = "CollectFees"
        => /\ last.treasury # last.pre.fee_treasury => last.result # "Ok"
           /\ last.result # "Ok"
                  => /\ LeftPoolAlone(last)
                     /\ lp_mint[last.pool] = last.lp_pre
           /\ last.result = "Ok"
                  => /\ pools[last.pool] = [last.pre EXCEPT !.fee_collected_a = 0,
                                                            !.fee_collected_b = 0]
                     /\ vaults[last.pool] = last.vault_pre
                     /\ lp_mint[last.pool] = last.lp_pre
                     /\ last.debit_a = 0 /\ last.debit_b = 0
                     /\ last.credit_a = 0 /\ last.credit_b = 0

\* the stored treasury has reset the counters of a pool with fees booked
C17_Witness ==
    /\ last.op = "CollectFees"
    /\ last.result = "Ok"
    /\ last.pre.fee_treasury # NoKey
    /\ last.pre.fee_collected_a + last.pre.fee_collected_b > 0
    /\ pools[last.pool].fee_collected_a + pools[last.pool].fee_collected_b = 0

\* C18: SetFeeTreasury on an existing pool succeeds for any caller and any
\* previous treasury, overwrites the fee treasury with the supplied one and
\* changes no other field
C18_SetFeeTreasuryOverwritesForAnyCaller ==
    last.op = "SetFeeTreasury"
        => /\ (last.matches /\ Unpacks(last.pre)) => last.result = "Ok"
           /\ last.result = "Ok"
                  => /\ pools[last.pool] =
                            [last.pre EXCEPT !.fee_treasury = last.treasury]
                     /\ vaults[last.pool] = last.vault_pre
                     /\ lp_mint[last.pool] = last.lp_pre
           /\ last.result # "Ok"
                  => /\ LeftPoolAlone(last)
                     /\ lp_mint[last.pool] = last.lp_pre

\* a caller who is not the treasury in office has replaced it
C18_Witness ==
    /\ last.op = "SetFeeTreasury"
    /\ last.result = "Ok"
    /\ last.pre.fee_treasury # NoKey
    /\ last.authority # last.pre.fee_treasury
    /\ last.treasury # last.pre.fee_treasury
    /\ pools[last.pool].fee_treasury = last.treasury

\* the hops before hop i that went through the same pool
EarlierHopsOn(hops, i) == {j \in 1 .. i - 1 : hops[j].pool = hops[i].pool}

\* the quote of a hop on the reserves it found
HopQuote(h) ==
    IF h.direction
    THEN calculate_swap_output(h.amount_in, h.before.reserve_a, h.before.reserve_b)
    ELSE calculate_swap_output(h.amount_in, h.before.reserve_b, h.before.reserve_a)

\* C19: the output of a successful multi-hop swap is the quote applied hop
\* by hop, the input of hop k being the output of hop k-1 and its reserves
\* those standing when hop k starts; each hop changes its pool record (and
\* custody) exactly as a single Swap of that amount would, also when the
\* same pool serves two hops
C19_MultihopIsSwapHopByHop ==
    [][(IsRouteOp(last'.op) /\ last'.result = "Ok")
          => LET hops == last'.hops
                 n    == Len(hops)
             IN  /\ n >= 1
                 /\ hops[1].amount_in = last'.amount_a
                 /\ last'.amount_out = hops[n].amount_out
                 /\ \A i \in 1 .. n :
                        LET h       == hops[i]
                            earlier == EarlierHopsOn(hops, i)
                            swap    == process_swap(h.before, h.vault_before, 0,
                                                    h.amount_in, h.direction,
                                                    "none")
                        IN  /\ i > 1 => h.amount_in = hops[i - 1].amount_out
                            /\ h.before =
                                   IF earlier = {} THEN pools[h.pool]
                                   ELSE hops[CHOOSE j \in earlier :
                                                 \A k \in earlier : k <= j].after
                            /\ HopQuote(h).err = "Ok"
                            /\ h.amount_out = HopQuote(h).val
                            /\ swap.result = "Ok"
                            /\ h.after = swap.pool
                            /\ h.vault_after = swap.vault
                            /\ h.amount_out = swap.amount_out
                 /\ \A p \in PoolIds :
                        IF \E i \in 1 .. n : hops[i].pool = p
                        THEN /\ pools'[p] = hops[LastHopOn(hops, p)].after
                             /\ vaults'[p] = hops[LastHopOn(hops, p)].vault_after
                        ELSE /\ pools'[p] = pools[p]
                             /\ vaults'[p] = vaults[p]]_vars

\* a two-hop swap out of a pool and back into it
C19_Witness ==
    /\ IsRouteOp(last.op)
    /\ last.result = "Ok"
    /\ Len(last.hops) = NumHops
    /\ last.hops[1].pool = last.hops[NumHops].pool
    /\ last.hops[NumHops].before = last.hops[1].after
    /\ last.amount_out > 0

\* the route call went through all its hops and the last one paid less
\* than the minimum asked for
PaidBelowMinimum(call) ==
    /\ IsRouteOp(call.op)
    /\ call.num_hops >= 1
    /\ Len(call.hops) = call.num_hops
    /\ call.hops[call.num_hops].amount_out < call.amount_b

\* C20: a multi-hop swap succeeds only if the output of its last hop is at
\* least minimum_amount_out; if it is lower the whole operation fails with
\* InsufficientFunds and every pool record and custody balance stands at
\* its value from before the operation
C20_MultihopHonoursMinimumOut ==
    [][IsRouteOp(last'.op)
          => /\ last'.result = "Ok"
                    => /\ Len(last'.hops) = last'.num_hops
                       /\ last'.amount_out = last'.hops[last'.num_hops].amount_out
                       /\ last'.amount_out >= last'.amount_b
             /\ PaidBelowMinimum(last')
                    => /\ last'.result = "InsufficientFunds"
                       /\ pools' = pools
                       /\ vaults' = vaults
                       /\ lp_mint' = lp_mint
             /\ last'.result = "InsufficientFunds" => PaidBelowMinimum(last')]_vars

\* two hops were made and paid less than the minimum: the swap failed and
\* the pools stand as the first hop found them
C20_Witness ==
    /\ PaidBelowMinimum(last)
    /\ last.num_hops = NumHops
    /\ last.result = "InsufficientFunds"
    /\ last.hops[NumHops].amount_out > 0
    /\ pools[last.hops[1].pool] = last.hops[1].before
    /\ pools[last.hops[1].pool] # last.hops[1].after

-----------------------------------------------------------------------------
(* Validation order of the multi-hop handlers *)

\* every pool account of the last call's route holds a regular pool record
\* with both reserves positive
RouteUnpacks ==
    \A i \in 1 .. Len(last.route) :
        /\ UnpacksAsPool(pools[last.route[i]])
        /\ pools[last.route[i]].reserve_a > 0
        /\ pools[last.route[i]].reserve_b > 0

\* some hop of the last call's path names assets other than its pool's two
PathMisfit ==
    \E i \in 1 .. Len(last.token_path) - 1 :
        /\ i <= Len(last.route)
        /\ {pools[last.route[i]].token_a, pools[last.route[i]].token_b}
               # {last.token_path[i], last.token_path[i + 1]}

\* C21: a MultihopSwapWithPath call in which some hop's pool does not
\* store exactly the two assets the path names for that hop fails with
\* InvalidArgument before any transfer of the operation has been invoked.
C21_PathMismatchFailsBeforeAnyTransfer ==
    (/\ last.op = "MultihopSwapWithPath"
     /\ last.bad = NoneWrong
     /\ RouteUnpacks
     /\ PathMisfit)
        => (last.result = "InvalidArgument" /\ last.effects = 0)

\* the asset a recorded hop paid out
HopOutputMint(h) == IF h.direction THEN h.before.token_b ELSE h.before.token_a

\* the mint of the holding hop i of the last MultihopSwap read from
HopInputMint(i) ==
    IF i = 1 THEN last.input_mint ELSE HopOutputMint(last.hops[i - 1])

\* the last MultihopSwap reached the direction decision of hop i
ReachedDirection(i) ==
    /\ last.op = "MultihopSwap"
    /\ Len(last.hops) >= i - 1
    /\ i <= NumHops
    /\ UnpacksAsPool(pools[last.route[i]])
    /\ last.bad[1] # i

\* C22: every hop of MultihopSwap swaps A->B when the mint of its input
\* holding is the pool's asset_a and B->A when it is asset_b, and fails with
\* InvalidArgument when it is neither; the input holding of hop 1 is the
\* caller's, that of a later hop the holding that received the previous
\* hop's output, carrying the previous hop's output amount.
C22_DirectionFollowsInputMint ==
    \A i \in 1 .. NumHops :
        ReachedDirection(i) =>
            LET pool == pools[last.route[i]]
                mint == HopInputMint(i)
            IN  /\ (mint # pool.token_a /\ mint # pool.token_b)
                       => (Len(last.hops) = i - 1 /\ last.result = "InvalidArgument")
                /\ Len(last.hops) >= i =>
                       /\ last.hops[i].pool = last.route[i]
                       /\ last.hops[i].direction = (mint = pool.token_a)
                       /\ mint \in {pool.token_a, pool.token_b}
                       /\ i > 1 => last.hops[i].amount_in = last.hops[i - 1].amount_out

\* a two-hop MultihopSwap went A->B and then back B->A
C22_Witness ==
    /\ last.op = "MultihopSwap"
    /\ last.result = "Ok"
    /\ Len(last.hops) = 2
    /\ last.hops[1].direction
    /\ ~last.hops[2].direction
    /\ last.hops[2].amount_in > 0

\* the last multi-hop call reached the custody-address comparison of hop i
\* with a custody account that is not at its derived address
ReachedVaultCheck(i) ==
    /\ last.op \in {"MultihopSwap", "MultihopSwapWithPath"}
    /\ last.bad = <<i, "vault">>
    /\ Len(last.hops) = i - 1
    /\ i <= Len(last.route)
    /\ UnpacksAsPool(pools[last.route[i]])
    /\ last.op = "MultihopSwapWithPath" =>
           /\ i <= Len(last.token_path) - 1
           /\ {pools[last.route[i]].token_a, pools[last.route[i]].token_b}
                  = {last.token_path[i], last.token_path[i + 1]}

\* C23: in MultihopSwap and MultihopSwapWithPath every hop compares the
\* supplied custody accounts with the addresses derived for its pool before
\* any transfer of that hop; on a mismatch the call fails with InvalidSeeds
\* and that hop invokes no transfer (only the two transfers of each
\* completed earlier hop have been invoked).
C23_HopChecksCustodyBeforeMoving ==
    /\ \A i \in 1 .. NumHops :
           ReachedVaultCheck(i) =>
               /\ last.result = "InvalidSeeds"
               /\ last.effects = 2 * (i - 1)
    /\ (last.op \in {"MultihopSwap", "MultihopSwapWithPath"}
        /\ last.result = "InvalidSeeds") => last.effects = 2 * Len(last.hops)

\* the second hop of a path call was refused for a custody account at a
\* wrong address after the first hop had moved value
C23_Witness ==
    /\ last.op = "MultihopSwapWithPath"
    /\ last.bad = <<2, "vault">>
    /\ last.result = "InvalidSeeds"
    /\ Len(last.hops) = 1
    /\ last.hops[1].amount_out > 0
    /\ last.effects = 2

-----------------------------------------------------------------------------
(* Validation order of Swap and InitPool *)

\* the last call was a Swap on a pool record that unpacks, with a zero
\* amount or an empty reserve on either side
SwapOfNothing ==
    /\ last.op = "Swap"
    /\ Unpacks(last.pre)
    /\ \/ last.amount_a = 0
       \/ last.pre.reserve_a = 0
       \/ last.pre.reserve_b = 0

\* C24: Swap fails with InvalidArgument when amount_in, reserve_in or
\* reserve_out is zero, and every rejection of a Swap (an account at a wrong
\* address, a zero amount, an empty reserve) is decided before any custody
\* transfer has been invoked.
C24_SwapRejectsBeforeAnyTransfer ==
    /\ (SwapOfNothing /\ last.wrong = "none") => last.result = "InvalidArgument"
    /\ (SwapOfNothing \/ (last.op = "Swap" /\ last.result = "InvalidSeeds"))
           => last.effects = 0

\* C25: in InitPool every comparison of a supplied account with its derived
\* address (pool record, custody accounts, pool-share mint) is completed
\* before any account is created and before any transfer, in both variants:
\* a call with one of these accounts at a wrong address fails with
\* InvalidSeeds having created and moved nothing.
C25_InitPoolChecksAddressesFirst ==
    /\ (last.op = "InitPool" /\ last.wrong # "none" /\ ~last.pre.exists)
           => last.result = "InvalidSeeds"
    /\ (last.op = "InitPool" /\ last.result = "InvalidSeeds") => last.effects = 0

\* C26: InitPool succeeds at most once per asset pair: on a pair whose pool
\* record is already populated it fails with AccountAlreadyInitialized and
\* leaves the record (reserves, share supply, fee counters, treasury) as it
\* was, in both variants.
C26_ReinitFailsAlreadyInitialized ==
    (/\ last.op = "InitPool"
     /\ last.wrong = "none"
     /\ last.pre.exists)
        => /\ last.result = "AccountAlreadyInitialized"
           /\ pools[last.pool] = last.pre

-----------------------------------------------------------------------------
(* Arithmetic *)

\* the last call was an AddLiquidity into a pool with both reserves positive
\* whose required counterpart of amount_a, computed without loss, exceeds u64
RequiredExceedsU64 ==
    /\ last.op = "AddLiquidity"
    /\ Unpacks(last.pre)
    /\ last.pre.reserve_a > 0
    /\ last.pre.reserve_b > 0
    /\ (last.amount_a * last.pre.reserve_b) \div last.pre.reserve_a > U64Max

\* C27: no arithmetic step silently wraps or truncates: when an intermediate
\* value (here required_b of AddLiquidity) does not fit in u64 the whole
\* operation aborts and changes no state, instead of continuing with a
\* reduced value.
C27_NoSilentTruncation ==
    RequiredExceedsU64 =>
        /\ last.result # "Ok"
        /\ pools[last.pool] = last.pre
        /\ vaults[last.pool] = last.vault_pre
        /\ lp_mint[last.pool] = last.lp_pre

IsQuotePair == calc.fn = "calculate_swap_output twice"

\* two quotes against the same positive reserves, for inputs 0 < x <= y
QuotedInOrder ==
    /\ IsQuotePair
    /\ 0 < calc.x /\ calc.x <= calc.larger
    /\ calc.y > 0 /\ calc.z > 0

\* C28 as stated: for fixed positive reserves and all inputs 0 < x <= y,
\* calculate_swap_output yields quote(x) <= quote(y).
C28_QuoteMonotoneForAllInputs ==
    QuotedInOrder =>
        /\ calc.quote.err = "Ok"
        /\ calc.larger_quote.err = "Ok"
        /\ calc.quote.val <= calc.larger_quote.val

\* C28 as amended: for fixed positive reserves and inputs 0 < x <= y such
\* that y*997*reserve_out fits the wide integer type, both quotes are
\* returned and quote(x) <= quote(y); when y*997*reserve_out does not fit,
\* the quote of y is InvalidArgument.
C28_QuoteMonotoneWhenProductFits ==
    QuotedInOrder =>
        IF QuoteFits(calc.larger, calc.z)
        THEN /\ calc.quote.err = "Ok"
             /\ calc.larger_quote.err = "Ok"
             /\ calc.quote.val <= calc.larger_quote.val
        ELSE calc.larger_quote.err = "InvalidArgument"

\* a larger input was quoted strictly more than a smaller one
C28_Witness ==
    /\ QuotedInOrder
    /\ calc.x < calc.larger
    /\ calc.larger_quote.err = "Ok"
    /\ 0 < calc.quote.val
    /\ calc.quote.val < calc.larger_quote.val

\* C29: every successful Swap with amount_in > 0 leaves the product
\* reserve_a * reserve_b strictly greater than it was before the swap.
C29_SwapRaisesProduct ==
    (last.op = "Swap" /\ last.result = "Ok" /\ last.amount_a > 0) =>
        pools[last.pool].reserve_a * pools[last.pool].reserve_b
            > last.pre.reserve_a * last.pre.reserve_b

\* a Swap paid out and left a larger product
C29_Witness ==
    /\ last.op = "Swap" /\ last.result = "Ok"
    /\ last.amount_a > 0
    /\ last.amount_out > 0
    /\ pools[last.pool].reserve_a * pools[last.pool].reserve_b
           > last.pre.reserve_a * last.pre.reserve_b

-----------------------------------------------------------------------------
(* Emptied pools *)

\* the last call was a RemoveLiquidity that burned the pool's whole supply
BurnedWholeSupply ==
    /\ last.op = "RemoveLiquidity"
    /\ last.result = "Ok"
    /\ last.pre.total_lp_supply > 0
    /\ last.burned = last.pre.total_lp_supply

\* the step is an AddLiquidity on the pool the last call was made on
AddLiquidityFollows ==
    /\ last'.op = "AddLiquidity"
    /\ last'.pool = last.pool

\* C30: a pool is never deleted and stays usable once emptied: after a
\* RemoveLiquidity of the entire share supply the record is still there with
\* reserve_a = reserve_b = total_lp_supply = 0, and an AddLiquidity(a, b)
\* that follows succeeds, takes (a, b) as the final pair and mints the floor
\* square root of a*b shares.
C30_EmptiedPoolStaysUsable ==
    [][BurnedWholeSupply =>
          /\ pools[last.pool].exists
          /\ pools[last.pool].reserve_a = 0
          /\ pools[last.pool].reserve_b = 0
          /\ pools[last.pool].total_lp_supply = 0
          /\ AddLiquidityFollows =>
                 /\ last'.result = "Ok"
                 /\ last'.final_a = last'.amount_a
                 /\ last'.final_b = last'.amount_b
                 /\ IsFloorSqrt(last'.liquidity, last'.amount_a * last'.amount_b)
                 /\ pools'[last.pool].reserve_a = last'.amount_a
                 /\ pools'[last.pool].reserve_b = last'.amount_b
                 /\ pools'[last.pool].total_lp_supply = last'.liquidity
                 /\ lp_mint'[last.pool] = last'.liquidity]_vars

\* an emptied pool took a deposit of two positive amounts and minted shares
C30_Witness ==
    /\ last.op = "AddLiquidity" /\ last.result = "Ok"
    /\ last.pre.exists
    /\ last.pre.reserve_a = 0 /\ last.pre.reserve_b = 0
    /\ last.pre.total_lp_supply = 0
    /\ last.amount_a > 0 /\ last.amount_b > 0
    /\ last.liquidity > 0
    /\ pools[last.pool].reserve_a = last.amount_a

-----------------------------------------------------------------------------
(* The two pool variants *)

\* the last call was one of the three operations both variants share, with
\* every account at its derived address, on a state a native pool account
\* can be in: its lamports, rent included, fit in a u64
VariantStep ==
    /\ last.op \in {"AddLiquidity", "RemoveLiquidity", "Swap"}
    /\ last.wrong = "none"
    /\ PoolRent + last.vault_pre.a <= U64Max

\* the token/token branch applied to the state and the inputs of the last call
TwoTokenStep ==
    CASE last.op = "AddLiquidity" ->
             process_add_liquidity(last.pre, last.vault_pre, last.lp_pre,
                                   last.amount_a, last.amount_b)
      [] last.op = "RemoveLiquidity" ->
             process_remove_liquidity(last.pre, last.vault_pre, last.lp_pre,
                                      last.amount_a)
      [] OTHER ->
             process_swap(last.pre, last.vault_pre, last.lp_pre,
                          last.amount_a, last.direction, "none")

\* the native branch applied to the same state and inputs
NativePairedStep ==
    CASE last.op = "AddLiquidity" ->
             process_add_liquidity_native(last.pre, last.vault_pre, last.lp_pre,
                                          last.amount_a, last.amount_b)
      [] last.op = "RemoveLiquidity" ->
             process_remove_liquidity_native(last.pre, last.vault_pre,
                                             last.lp_pre, last.amount_a)
      [] OTHER ->
             process_swap_native(last.pre, last.vault_pre, last.lp_pre,
                                 last.amount_a, last.direction, "none")

\* the two records hold the same reserves, supply and fee counters
SameCounters(n, t) ==
    /\ n.reserve_a = t.reserve_a
    /\ n.reserve_b = t.reserve_b
    /\ n.total_lp_supply = t.total_lp_supply
    /\ n.fee_collected_a = t.fee_collected_a
    /\ n.fee_collected_b = t.fee_collected_b

\* the two branches accept or reject together and, when they accept, leave
\* the same counters, the same custody and the same share balance
VariantsAgree(n, t) ==
    /\ (n.result = "Ok") <=> (t.result = "Ok")
    /\ n.result = "Ok" =>
           /\ SameCounters(n.pool, t.pool)
           /\ n.vault = t.vault
           /\ n.lp = t.lp

\* C31: the two pool variants differ only in which slot holds the native
\* asset: from the same reserves, supply, fee counters and custody, the same
\* AddLiquidity, RemoveLiquidity or Swap input is accepted by both branches
\* or rejected by both, and both leave identical reserve_a, reserve_b,
\* total_lp_supply and fee counters.
C31_VariantsStepTogether ==
    VariantStep => VariantsAgree(NativePairedStep, TwoTokenStep)

\* the native asset the call moves into the pool
NativeAssetIn ==
    CASE last.op = "AddLiquidity" ->
             FinalAmounts(last.amount_a, last.amount_b,
                          last.pre.reserve_a, last.pre.reserve_b)[1]
      [] last.op = "Swap" /\ last.direction -> last.amount_a
      [] OTHER -> 0

\* the pool account's lamports, rent included, still fit in a u64 with the
\* native asset of the call added
LamportsFit == PoolRent + last.vault_pre.a + NativeAssetIn <= U64Max

\* C31 (amended): from the same reserves, supply, fee counters and custody,
\* the two branches accept or reject the same AddLiquidity, RemoveLiquidity
\* or Swap input and leave identical counters, as long as the native pool
\* account's lamports, its rent included, still fit in a u64 after the step.
C31_VariantsStepTogetherWithinLamports ==
    (VariantStep /\ LamportsFit) => VariantsAgree(NativePairedStep, TwoTokenStep)

\* a native pool took a Swap of the native asset that the token/token branch
\* takes in the same way
C31_Witness ==
    /\ last.op = "Swap" /\ last.result = "Ok"
    /\ IsNativePool(last.pool)
    /\ last.direction
    /\ last.amount_out > 0
    /\ VariantStep /\ LamportsFit
    /\ TwoTokenStep.result = "Ok"
    /\ TwoTokenStep.pool.reserve_b = pools[last.pool].reserve_b

-----------------------------------------------------------------------------
(* Behaviours of one token pool and one native pool whose slot a is filled
   up to the largest balance the pool account can hold *)

VariantPools == {"pXY", "pSOL"}

VariantInitPairs == {<<1000, 2000>>, <<U64Max - PoolRent - 1, 8>>}

VariantInitPool == InitPoolOf(MaxSteps, VariantPools, VariantInitPairs, {"none"})

VariantAddLiquidity == AddLiquidityOf(MaxSteps, VariantPools, {<<100, 300>>, <<1, 1>>})

VariantRemoveLiquidity == RemoveLiquidityOf(MaxSteps, VariantPools)

VariantSwap == SwapOf(MaxSteps, VariantPools, {1, 100, 1000}, {"none"})

NextVariants ==
    \/ VariantInitPool
    \/ VariantAddLiquidity
    \/ VariantRemoveLiquidity
    \/ VariantSwap

SpecVariants == Init /\ [][NextVariants]_vars

-----------------------------------------------------------------------------
(* Malformed calls of MultihopSwapWithPath *)

\* the path of the last call names fewer than two assets
PathTooShort ==
    /\ last.op = "MultihopSwapWithPath"
    /\ Len(last.token_path) < 2

\* the last call supplied the seven accounts of fewer hops than its path has
HopAccountsMissing ==
    /\ last.op = "MultihopSwapWithPath"
    /\ Len(last.token_path) >= 2
    /\ Len(last.route) < Len(last.token_path) - 1

-----------------------------------------------------------------------------
(* The loop of integer_sqrt, one iteration per step, on the products of two
   u64 values *)

\* `let mut x = self; let mut y = (self + 1) / 2;` or the early return
SqrtEnter ==
    /\ calc = NoCalc
    /\ \E a \in MathInputs, b \in MathInputs :
        /\ calc' = IF a * b < 2
                   THEN [NoCalc EXCEPT !.fn = "integer_sqrt returned",
                                       !.z = a * b, !.x = a * b]
                   ELSE [NoCalc EXCEPT !.fn = "integer_sqrt",
                                       !.z = a * b, !.x = a * b,
                                       !.y = (a * b + 1) \div 2]
        /\ UNCHANGED <<pools, vaults, lp_mint, last, steps, retained>>

\* one pass through the body of `while y < x`
SqrtIterate ==
    /\ calc.fn = "integer_sqrt"
    /\ calc.y < calc.x
    /\ calc' = [calc EXCEPT !.x = calc.y,
                            !.y = SqrtStep(calc.z, calc.y),
                            !.iterations = @ + 1]
    /\ UNCHANGED <<pools, vaults, lp_mint, last, steps, retained>>

\* the loop condition fails and x is handed back
SqrtReturn ==
    /\ calc.fn = "integer_sqrt"
    /\ ~(calc.y < calc.x)
    /\ calc' = [calc EXCEPT !.fn = "integer_sqrt returned"]
    /\ UNCHANGED <<pools, vaults, lp_mint, last, steps, retained>>

NextSqrt ==
    \/ SqrtEnter
    \/ SqrtIterate
    \/ SqrtReturn

SpecSqrt == Init /\ [][NextSqrt]_vars

\* a call that has begun keeps running: the loop is straight-line code
\* inside one instruction
SpecSqrtRuns == SpecSqrt /\ WF_vars(SqrtIterate) /\ WF_vars(SqrtReturn)

\* the number of bits of n
RECURSIVE BitLength(_)
BitLength(n) == IF n = 0 THEN 0 ELSE 1 + BitLength(n \div 2)

\* C33: the integer square root loop terminates for every u128 input that
\* is a product of two u64 values, after a number of iterations that is at
\* most the bit length of the input, and hands back what integer_sqrt
\* computes.
C33_SqrtLoopTerminates ==
    /\ [](calc.fn \in {"integer_sqrt", "integer_sqrt returned"} =>
              calc.iterations <= BitLength(calc.z))
    /\ [](calc.fn = "integer_sqrt returned" => calc.x = integer_sqrt(calc.z))
    /\ (calc.fn = "integer_sqrt") ~> (calc.fn = "integer_sqrt returned")

\* the loop has returned the root of the largest product after several
\* iterations
C33_Witness ==
    /\ calc.fn = "integer_sqrt returned"
    /\ calc.z = U64Max * U64Max
    /\ calc.x = U64Max
    /\ calc.iterations > 2

-----------------------------------------------------------------------------
(* Solvency *)

\* the custody of pool p covers both of its reserves
Solvent(p) ==
    /\ vaults[p].a >= pools[p].reserve_a
    /\ vaults[p].b >= pools[p].reserve_b

\* C34: solvency: custody_a >= reserve_a and custody_b >= reserve_b in
\* every reachable state of every pool, so that a RemoveLiquidity of the
\* entire share supply can always be paid; this holds across WithdrawFees
\* and across the refund of AddLiquidity.
C34_CustodyCoversReserves == \A p \in PoolIds : Solvent(p)

-----------------------------------------------------------------------------
(* Swaps never drain a reserve *)

PositiveReserves(pool) == pool.reserve_a > 0 /\ pool.reserve_b > 0

\* the reserve a swap in the given direction pays out of
ReserveOut(pool, direction_a_to_b) ==
    IF direction_a_to_b THEN pool.reserve_b ELSE pool.reserve_a

\* the last call was a Swap or a multi-hop instruction that succeeded
SwappedOk ==
    /\ last.op \in {"Swap", "MultihopSwap", "MultihopSwapWithPath"}
    /\ last.result = "Ok"

\* every hop of the last multi-hop call paid less than the reserve it found
\* and left both reserves of its pool positive
HopsPaidLessThanReserve ==
    \A i \in 1 .. Len(last.hops) :
        PositiveReserves(last.hops[i].before) =>
            /\ last.hops[i].amount_out
                   < ReserveOut(last.hops[i].before, last.hops[i].direction)
            /\ PositiveReserves(last.hops[i].after)

\* C35: a swap never drains a reserve: for positive inputs the quote is
\* strictly below reserve_out, so a successful Swap or multi-hop operation
\* on a pool with positive reserves leaves both reserves strictly positive.
C35_SwapNeverDrainsReserve ==
    [][SwappedOk' =>
          /\ (last'.op = "Swap" /\ PositiveReserves(last'.pre)) =>
                 last'.amount_out < ReserveOut(last'.pre, last'.direction)
          /\ HopsPaidLessThanReserve'
          /\ \A p \in PoolIds :
                 PositiveReserves(pools[p]) => PositiveReserves(pools'[p])]_vars

\* a Swap took all but one unit of the reserve it paid out of
C35_Witness ==
    /\ last.op = "Swap" /\ last.result = "Ok"
    /\ last.amount_out > 0
    /\ last.amount_out = ReserveOut(last.pre, last.direction) - 1
    /\ ReserveOut(pools[last.pool], last.direction) = 1

-----------------------------------------------------------------------------
(* Dilution *)

\* C36: AddLiquidity never dilutes the holders: for a positive supply,
\* after a successful AddLiquidity reserve_a' * supply >= reserve_a * supply'
\* and reserve_b' * supply >= reserve_b * supply'.
C36_AddLiquidityNeverDilutes ==
    (/\ last.op = "AddLiquidity" /\ last.result = "Ok"
     /\ last.pre.total_lp_supply > 0) =>
        /\ pools[last.pool].reserve_a * last.pre.total_lp_supply
               >= last.pre.reserve_a * pools[last.pool].total_lp_supply
        /\ pools[last.pool].reserve_b * last.pre.total_lp_supply
               >= last.pre.reserve_b * pools[last.pool].total_lp_supply

-----------------------------------------------------------------------------
(* Fee instructions before a treasury is set *)

\* C37: while fee_treasury is unset (no SetFeeTreasury since InitPool), no
\* CollectFees and no WithdrawFees call succeeds, whatever treasury and
\* caller identities are supplied.
C37_NoFeeCallWhileTreasuryUnset ==
    (/\ last.op \in {"CollectFees", "WithdrawFees"}
     /\ last.pre.fee_treasury = NoKey) =>
        last.result # "Ok"

-----------------------------------------------------------------------------
(* Deposits that mint nothing *)

\* C38: a successful InitPool or AddLiquidity that increases at least one
\* reserve mints at least one share.
C38_DepositMintsShares ==
    (/\ last.op \in {"InitPool", "AddLiquidity"} /\ last.result = "Ok"
     /\ \/ pools[last.pool].reserve_a > last.pre.reserve_a
        \/ pools[last.pool].reserve_b > last.pre.reserve_b) =>
        /\ last.liquidity >= 1
        /\ pools[last.pool].total_lp_supply > last.pre.total_lp_supply

-----------------------------------------------------------------------------
(* Behaviours in which a Swap may be followed by a Swap of what it paid *)

RoundTripPools == {"pXY", "pSOL"}

RoundTripInitPairs == {<<1000, 1000>>, <<1, 4>>, <<7, 5>>, <<100, 3000>>, <<3000, 100>>}

RoundTripInitPool == InitPoolOf(MaxSteps, RoundTripPools, RoundTripInitPairs, {"none"})

\* amount_in is one of a few fixed amounts or the output of the last call
RoundTripSwap == SwapOf(MaxSteps, RoundTripPools, {1, 3, 100, 1000} \cup {last.amount_out}, {"none"})

NextRoundTrip ==
    \/ RoundTripInitPool
    \/ RoundTripSwap

SpecRoundTrip == Init /\ [][NextRoundTrip]_vars

\* the step is a successful Swap that sends what the last call, a successful
\* Swap of a positive amount on the same pool, paid out back through the
\* pool in the opposite direction
SwapsBack ==
    /\ last.op = "Swap" /\ last.result = "Ok"
    /\ last.amount_a > 0
    /\ PositiveReserves(last.pre)
    /\ last'.op = "Swap" /\ last'.result = "Ok"
    /\ last'.pool = last.pool
    /\ last'.direction # last.direction
    /\ last'.amount_a = last.amount_out

\* C39: swapping forth and back never yields a profit: on a pool with
\* positive reserves, a successful Swap of x > 0 in one direction followed
\* at once by a Swap of the output received in the opposite direction on the
\* same pool returns at most x.
C39_RoundTripNeverProfits ==
    [][SwapsBack => last'.amount_out <= last.amount_a]_vars

\* a Swap of 1000 was sent back through the pool and returned less than 1000
C39_Witness ==
    /\ last.op = "Swap" /\ last.result = "Ok"
    /\ last.amount_a = 499
    /\ last.amount_out > 0
    /\ last.amount_out < 1000
    /\ ~last.direction
    /\ last.pre.reserve_a = 2000 /\ last.pre.reserve_b = 501

=============================================================================
